---------------------------- MODULE Spec2Model ----------------------------
(***************************************************************************)
(* A model of the FactTrace debate core: the agents' response parsing      *)
(* (agents/base_agent.py, debate/crew.py), the one-shot / deliberation     *)
(* DebateProtocol (debate/protocol.py), the VerdictSynthesizer             *)
(* (debate/verdict.py) and the multi-round FactCheckCrew (debate/crew.py). *)
(*                                                                         *)
(* Confidences are Python floats.  They are modelled as IEEE-754 binary64  *)
(* values (non-negative, finite) with round-to-nearest-even addition and   *)
(* division, because the synthesizer adds and divides them.                *)
(***************************************************************************)
EXTENDS Integers, Sequences, FiniteSets, TLC

(***************************************************************************)
(* binary64 arithmetic.  A double is 0 or M * 2^e with 2^52 <= M < 2^53;   *)
(* M is kept in two limbs, M = hi * 2^26 + lo.                             *)
(***************************************************************************)
Limb == 2^26

DZero == [hi |-> 0, lo |-> 0, e |-> 0]

Dbl(h, l, x) == [hi |-> h, lo |-> l, e |-> x]

IsZero(x) == x.hi = 0 /\ x.lo = 0

\* x < y on doubles.
DLess(x, y) ==
    IF IsZero(y) THEN FALSE
    ELSE IF IsZero(x) THEN TRUE
    ELSE IF x.e # y.e THEN x.e < y.e
    ELSE IF x.hi # y.hi THEN x.hi < y.hi
    ELSE x.lo < y.lo

DLeq(x, y) == ~DLess(y, x)

\* A wide integer <<H, L>> = H * 2^26 + L, shifted left by three bits
\* (guard, round and sticky positions).
Widen(x) == <<x.hi * 8 + (x.lo * 8) \div Limb, (x.lo * 8) % Limb>>

\* One right shift of a wide integer, the bit shifted out or-ed into the
\* new lowest bit (sticky).
ShiftRight1(w) ==
    LET l == (w[2] \div 2) + (w[1] % 2) * (Limb \div 2)
    IN  <<w[1] \div 2, IF w[2] % 2 = 1 /\ l % 2 = 0 THEN l + 1 ELSE l>>

RECURSIVE ShiftRightSticky(_, _)
ShiftRightSticky(w, d) ==
    IF d = 0 \/ (w[1] = 0 /\ w[2] <= 1) THEN w
    ELSE ShiftRightSticky(ShiftRight1(w), d - 1)

WideAdd(a, b) ==
    LET l == a[2] + b[2]
    IN  <<a[1] + b[1] + l \div Limb, l % Limb>>

\* Round a wide integer w, 2^55 <= w < 2^56, times 2^x to the nearest
\* double, ties to even.
RoundWide(w, x) ==
    LET low == w[2] % 8
        h   == w[1] \div 8
        l   == (w[1] % 8) * (Limb \div 8) + w[2] \div 8
        up  == low > 4 \/ (low = 4 /\ l % 2 = 1)
        l1  == IF up THEN l + 1 ELSE l
        h1  == h + l1 \div Limb
    IN  IF h1 = Limb * 2
        THEN Dbl(Limb, 0, x + 4)
        ELSE Dbl(h1, l1 % Limb, x + 3)

\* x + y in binary64 (Python's float +).
DAdd(x, y) ==
    IF IsZero(x) THEN y
    ELSE IF IsZero(y) THEN x
    ELSE LET big   == IF x.e >= y.e THEN x ELSE y
             small == IF x.e >= y.e THEN y ELSE x
             s     == WideAdd(Widen(big),
                              ShiftRightSticky(Widen(small), big.e - small.e))
         IN  IF s[1] >= Limb * 16
             THEN RoundWide(ShiftRight1(s), big.e - 2)
             ELSE RoundWide(s, big.e - 3)

\* Wide-integer helpers of the long division.
WideGeq(a, b) == a[1] > b[1] \/ (a[1] = b[1] /\ a[2] >= b[2])

WideSub(a, b) ==
    IF a[2] >= b[2] THEN <<a[1] - b[1], a[2] - b[2]>>
    ELSE <<a[1] - b[1] - 1, a[2] + Limb - b[2]>>

WideDouble(a) == <<a[1] * 2 + (a[2] * 2) \div Limb, (a[2] * 2) % Limb>>

\* n quotient bits of rem / den (restoring division); the result is
\* <<quotient, remainder>>.
RECURSIVE DivBits(_, _, _, _)
DivBits(rem, den, q, n) ==
    IF n = 0 \/ q[1] < 0 THEN <<q, rem>>
    ELSE IF WideGeq(rem, den)
         THEN DivBits(WideDouble(WideSub(rem, den)), den,
                      <<q[1] * 2 + (q[2] * 2) \div Limb, ((q[2] * 2) % Limb) + 1>>,
                      n - 1)
         ELSE DivBits(WideDouble(rem), den, WideDouble(q), n - 1)

\* x / y in binary64 (Python's float /), y # 0.
DDiv(x, y) ==
    IF IsZero(x) THEN DZero
    ELSE LET num  == <<x.hi, x.lo>>
             den  == <<y.hi, y.lo>>
             lt   == ~WideGeq(num, den)
             r    == DivBits(IF lt THEN WideDouble(num) ELSE num, den,
                             <<0, 0>>, 54)
             q    == r[1]
             odd  == q[2] % 2 = 1
             m    == <<q[1] \div 2, (q[2] \div 2) + (q[1] % 2) * (Limb \div 2)>>
             up   == odd /\ (r[2] # <<0, 0>> \/ m[2] % 2 = 1)
             l1   == IF up THEN m[2] + 1 ELSE m[2]
             h1   == m[1] + l1 \div Limb
             x0   == x.e - y.e - 52 - (IF lt THEN 1 ELSE 0)
         IN  IF h1 = Limb * 2 THEN Dbl(Limb, 0, x0 + 1)
             ELSE Dbl(h1, l1 % Limb, x0)

\* float(n) of a small positive int n.
RECURSIVE IntToDbl(_)
IntToDbl(n) ==
    IF n = 0 THEN DZero
    ELSE IF n = 1 THEN Dbl(Limb, 0, -52)
    ELSE IF n % 2 = 0
         THEN LET h == IntToDbl(n \div 2) IN Dbl(h.hi, h.lo, h.e + 1)
         ELSE DAdd(IntToDbl(n - 1), IntToDbl(1))

(***************************************************************************)
(* Text.  A Python str is the sequence of its characters.                  *)
(***************************************************************************)
UpperChars ==
    <<"A", "B", "C", "D", "E", "F", "G", "H", "I", "J", "K", "L", "M",
      "N", "O", "P", "Q", "R", "S", "T", "U", "V", "W", "X", "Y", "Z">>

LowerChars ==
    <<"a", "b", "c", "d", "e", "f", "g", "h", "i", "j", "k", "l", "m",
      "n", "o", "p", "q", "r", "s", "t", "u", "v", "w", "x", "y", "z">>

Digits == <<"0", "1", "2", "3", "4", "5", "6", "7", "8", "9">>

FAITHFUL == <<"f", "a", "i", "t", "h", "f", "u", "l">>

MUTATION == <<"m", "u", "t", "a", "t", "i", "o", "n">>

UNCERTAIN == <<"u", "n", "c", "e", "r", "t", "a", "i", "n">>

\* The closed enumeration of the data model (AgentVerdict.verdict).
Labels == {FAITHFUL, MUTATION, UNCERTAIN}

NoReasoningProvided ==
    <<"N", "o", " ", "r", "e", "a", "s", "o", "n", "i", "n", "g", " ",
      "p", "r", "o", "v", "i", "d", "e", "d">>

NoResponse == <<"N", "o", " ", "r", "e", "s", "p", "o", "n", "s", "e">>

ErrorPrefix == <<"E", "r", "r", "o", "r", ":", " ">>

\* str.lower() on one character and on a str.
LowerChar(c) ==
    IF \E i \in 1..Len(UpperChars) : UpperChars[i] = c
    THEN LowerChars[CHOOSE i \in 1..Len(UpperChars) : UpperChars[i] = c]
    ELSE c

lower(t) == [i \in 1..Len(t) |-> LowerChar(t[i])]

\* pat in t
Contains(t, pat) ==
    \E i \in 0..(Len(t) - Len(pat)) : SubSeq(t, i + 1, i + Len(pat)) = pat

\* t[:n]
Prefix(t, n) == SubSeq(t, 1, IF Len(t) < n THEN Len(t) ELSE n)

\* The slice bound of reasoning=response[:500].
ReasoningLimit == 500

\* re.search(r'\{[\s\S]*\}', t): the region from the first "{" to the last
\* "}" after it, or <<>> when there is no match.
re_search(t) ==
    LET opens  == {i \in 1..Len(t) : t[i] = "{"}
        first  == CHOOSE i \in opens : \A j \in opens : i <= j
        closes == {i \in 1..Len(t) : t[i] = "}" /\ i > first}
        last   == CHOOSE i \in closes : \A j \in closes : j <= i
    IN  IF opens = {} THEN <<>>
        ELSE IF closes = {} THEN <<>>
        ELSE SubSeq(t, first, last)

(***************************************************************************)
(* JSON values as json.loads returns them: a str, a number (kept with its  *)
(* literal, converted by float()), null, a list of str; "absent" stands    *)
(* for a key the object does not have.                                     *)
(***************************************************************************)
JAbsent == [t |-> "absent", s |-> <<>>, items |-> <<>>]

JNull == [t |-> "null", s |-> <<>>, items |-> <<>>]

JStr(x) == [t |-> "str", s |-> x, items |-> <<>>]

JNum(x) == [t |-> "num", s |-> x, items |-> <<>>]

JList(xs) == [t |-> "list", s |-> <<>>, items |-> xs]

RECURSIVE Join(_)
Join(xs) == IF xs = <<>> THEN <<>> ELSE Head(xs) \o <<",">> \o Join(Tail(xs))

\* The JSON text of a value.
RenderValue(v) ==
    CASE v.t = "str"  -> <<"\"">> \o v.s \o <<"\"">>
      [] v.t = "num"  -> v.s
      [] v.t = "null" -> <<"n", "u", "l", "l">>
      [] v.t = "list" ->
            <<"[">> \o Join([i \in 1..Len(v.items) |->
                               <<"\"">> \o v.items[i] \o <<"\"">>]) \o <<"]">>
      [] OTHER -> <<>>

\* The keys of the JSON object, as they stand in its text.
Key ==
    [verdict |->
        <<"\"", "v", "e", "r", "d", "i", "c", "t", "\"", ":">>,
     confidence |->
        <<"\"", "c", "o", "n", "f", "i", "d", "e", "n", "c", "e", "\"", ":">>,
     reasoning |->
        <<"\"", "r", "e", "a", "s", "o", "n", "i", "n", "g", "\"", ":">>,
     evidence |->
        <<"\"", "e", "v", "i", "d", "e", "n", "c", "e", "\"", ":">>,
     mutation_type |->
        <<"\"", "m", "u", "t", "a", "t", "i", "o", "n", "_", "t", "y", "p", "e", "\"", ":">>,
     dissenting_opinions |->
        <<"\"", "d", "i", "s", "s", "e", "n", "t", "i", "n", "g", "_", "o", "p", "i", "n", "i", "o", "n", "s", "\"", ":">>]

RenderField(key, v) ==
    IF v.t = "absent" THEN <<>> ELSE key \o RenderValue(v) \o <<",">>

\* The JSON text of an object with the keys the prompts ask for.
RenderObject(o) ==
    <<"{">> \o RenderField(Key.verdict, o.verdict)
            \o RenderField(Key.confidence, o.confidence)
            \o RenderField(Key.reasoning, o.reasoning)
            \o RenderField(Key.evidence, o.evidence)
            \o RenderField(Key.mutation_type, o.mutation_type)
            \o RenderField(Key.dissenting_opinions, o.dissenting_opinions) \o <<"}">>

(***************************************************************************)
(* A generator response: prose, then optionally a braces region that is    *)
(* either the JSON text of an object or text json.loads rejects, then      *)
(* more prose.                                                             *)
(***************************************************************************)
NoObject == [verdict |-> JAbsent, confidence |-> JAbsent,
             reasoning |-> JAbsent, evidence |-> JAbsent,
             mutation_type |-> JAbsent, dissenting_opinions |-> JAbsent]

Response(pre, kind, obj, junk, post) ==
    [pre |-> pre, kind |-> kind, obj |-> obj, junk |-> junk, post |-> post]

\* The response as the str the parsers receive.
Raw(r) ==
    r.pre \o (CASE r.kind = "object"  -> RenderObject(r.obj)
                [] r.kind = "garbage" -> <<"{">> \o r.junk \o <<"}">>
                [] OTHER              -> <<>>) \o r.post

\* json.loads(region): the object when the region is exactly the JSON text
\* of the response's object, JSONDecodeError otherwise.
json_loads(r, region) ==
    IF r.kind = "object" /\ region = RenderObject(r.obj)
    THEN [ok |-> TRUE, data |-> r.obj]
    ELSE [ok |-> FALSE, data |-> NoObject]

\* dict.get(key, default) on a decoded value.
get(v, default) == IF v.t = "absent" THEN default ELSE v

\* float() accepts a decimal literal: digits with at most one ".".
IsDigit(c) == \E i \in 1..Len(Digits) : Digits[i] = c

DigitValue(c) == (CHOOSE i \in 1..Len(Digits) : Digits[i] = c) - 1

IsDecimal(t) ==
    /\ \A i \in 1..Len(t) : IsDigit(t[i]) \/ t[i] = "."
    /\ Cardinality({i \in 1..Len(t) : t[i] = "."}) <= 1
    /\ \E i \in 1..Len(t) : IsDigit(t[i])

RECURSIVE DigitsToInt(_, _)
DigitsToInt(t, acc) ==
    IF t = <<>> THEN acc
    ELSE IF Head(t) = "." THEN DigitsToInt(Tail(t), acc)
    ELSE DigitsToInt(Tail(t), acc * 10 + DigitValue(Head(t)))

FractionDigits(t) ==
    LET dots == {i \in 1..Len(t) : t[i] = "."}
    IN  IF dots = {} THEN 0 ELSE Len(t) - (CHOOSE i \in dots : TRUE)

\* The double nearest to a decimal literal.
ParseFloat(t) ==
    DDiv(IntToDbl(DigitsToInt(t, 0)), IntToDbl(10 ^ FractionDigits(t)))

\* float(v): the exception it raises ("none" when it returns) and its value.
float(v) ==
    CASE v.t = "num" -> [exc |-> "none", value |-> ParseFloat(v.s)]
      [] v.t = "str" ->
            IF IsDecimal(v.s)
            THEN [exc |-> "none", value |-> ParseFloat(v.s)]
            ELSE [exc |-> "ValueError", value |-> DZero]
      [] OTHER -> [exc |-> "TypeError", value |-> DZero]

(***************************************************************************)
(* Verdicts and the two parsers that turn a response into a Verdict.       *)
(***************************************************************************)
AgentVerdict(name, label, conf, reasoning, evidence) ==
    [agent_name |-> name, verdict |-> label, confidence |-> conf,
     reasoning |-> reasoning, evidence |-> evidence]

\* Python float literals of the source: 0.0, 0.5, 0.8 and 1.0.
Lit ==
    [d00 |-> DZero, d05 |-> ParseFloat(<<"0", ".", "5">>),
     d08 |-> ParseFloat(<<"0", ".", "8">>), d10 |-> IntToDbl(1)]

\* What a call gives: the exception that leaves it ("none" when it
\* returns) and the Verdict it returns.
NoVerdict == AgentVerdict("", <<>>, DZero, JAbsent, JAbsent)

Returned(v) == [exc |-> "none", v |-> v]

Raised(e) == [exc |-> e, v |-> NoVerdict]

\* A keyword scan that looks for "mutation" first.
FallbackMutationFirst(text) ==
    IF Contains(lower(text), MUTATION) THEN MUTATION
    ELSE IF Contains(lower(text), FAITHFUL) THEN FAITHFUL
    ELSE UNCERTAIN

\* The keyword scan both parsers fall back to.
FallbackLabel(text) ==
    IF Contains(lower(text), FAITHFUL) THEN FAITHFUL
    ELSE IF Contains(lower(text), MUTATION) THEN MUTATION
    ELSE UNCERTAIN

\* The structured branch shared by the parsers: "fallback" when the code
\* reaches the keyword scan (no match, JSONDecodeError or ValueError),
\* otherwise the AgentVerdict(...) built from the decoded object or the
\* exception that escapes the except clause.
Structured(name, r) ==
    LET region == re_search(Raw(r))
        loaded == json_loads(r, region)
        vv     == get(loaded.data.verdict, JStr(UNCERTAIN))
        cc     == float(get(loaded.data.confidence, JNum(<<"0", ".", "5">>)))
    IN  IF region = <<>> \/ ~loaded.ok THEN Raised("fallback")
        ELSE IF vv.t # "str" THEN Raised("AttributeError")
        ELSE IF cc.exc = "ValueError" THEN Raised("fallback")
        ELSE IF cc.exc # "none" THEN Raised(cc.exc)
        ELSE Returned(AgentVerdict(name, lower(vv.s), cc.value,
                 get(loaded.data.reasoning, JStr(NoReasoningProvided)),
                 get(loaded.data.evidence, JList(<<>>))))

\* BaseAgent._parse_verdict(response), self.name = name.
_parse_verdict(name, r) ==
    LET st == Structured(name, r)
    IN  IF st.exc # "fallback" THEN st
        ELSE Returned(AgentVerdict(name, FallbackLabel(Raw(r)), Lit.d05,
                 JStr(Prefix(Raw(r), ReasoningLimit)), JList(<<>>)))

\* parse_verdict_from_output(output, agent_name).
parse_verdict_from_output(r, name) ==
    LET st == Structured(name, r)
    IN  IF st.exc # "fallback" THEN st
        ELSE Returned(AgentVerdict(name, FallbackLabel(Raw(r)), Lit.d05,
                 JStr(IF Raw(r) # <<>> THEN Prefix(Raw(r), ReasoningLimit)
                      ELSE NoResponse),
                 JList(<<>>)))

\* The parse at the end of SingleAgentBaseline.analyze(claim, truth): the
\* same structured branch with "No reasoning" as the default reasoning, and
\* a bare except around it that answers uncertain at 0.5.
SingleAgentBaseline_analyze(r) ==
    LET st == Structured("Single Agent", r)
        loaded == json_loads(r, re_search(Raw(r)))
    IN  IF st.exc = "none"
        THEN Returned([st.v EXCEPT !.reasoning =
                 get(loaded.data.reasoning,
                     JStr(<<"N", "o", " ", "r", "e", "a", "s", "o", "n", "i",
                            "n", "g">>))])
        ELSE Returned(AgentVerdict("Single Agent", UNCERTAIN, Lit.d05,
                 JStr(Prefix(Raw(r), ReasoningLimit)), JList(<<>>)))

(***************************************************************************)
(* VerdictSynthesizer (debate/verdict.py).                                 *)
(***************************************************************************)
FinalVerdict(label, conf, reasoning, dissent, mtype) ==
    [verdict |-> label, confidence |-> conf, reasoning |-> reasoning,
     dissenting_opinions |-> dissent, mutation_type |-> mtype]

NoFinal == FinalVerdict(<<>>, DZero, <<>>, <<>>, JNull)

Synthesized(fv) == [exc |-> "none", fv |-> fv]

SynthRaised(e) == [exc |-> e, fv |-> NoFinal]

\* The keyword lists of _identify_mutation_type and the type each gives, in
\* the order they are tried.
MutationKeywords ==
    <<[type |-> <<"t", "e", "m", "p", "o", "r", "a", "l">>,
       words |->
        {<<"d", "a", "t", "e">>,
         <<"t", "e", "m", "p", "o", "r", "a", "l">>,
         <<"t", "i", "m", "e">>,
         <<"w", "h", "e", "n">>,
         <<"a", "s", " ", "o", "f">>,
         <<"a", "f", "t", "e", "r">>,
         <<"b", "e", "f", "o", "r", "e">>}],
      [type |-> <<"n", "u", "m", "e", "r", "i", "c", "a", "l">>,
       words |->
        {<<"n", "u", "m", "b", "e", "r">>,
         <<"s", "t", "a", "t", "i", "s", "t", "i", "c">>,
         <<"f", "i", "g", "u", "r", "e">>,
         <<"c", "o", "u", "n", "t">>,
         <<"m", "o", "r", "e", " ", "t", "h", "a", "n">>,
         <<"l", "e", "s", "s", " ", "t", "h", "a", "n">>}],
      [type |-> <<"c", "o", "n", "t", "e", "x", "t", "u", "a", "l">>,
       words |->
        {<<"c", "o", "n", "t", "e", "x", "t">>,
         <<"c", "a", "v", "e", "a", "t">>,
         <<"o", "m", "i", "t">>,
         <<"m", "i", "s", "s", "i", "n", "g">>,
         <<"q", "u", "a", "l", "i", "f", "i", "e", "r">>}],
      [type |-> <<"f", "r", "a", "m", "i", "n", "g">>,
       words |->
        {<<"f", "r", "a", "m", "e">>,
         <<"f", "r", "a", "m", "i", "n", "g">>,
         <<"i", "m", "p", "l", "i", "c", "a", "t", "i", "o", "n">>,
         <<"m", "e", "a", "n", "i", "n", "g">>,
         <<"i", "n", "t", "e", "r", "p", "r", "e", "t", "a", "t", "i", "o", "n">>}]>>

TypeUnspecified == <<"u", "n", "s", "p", "e", "c", "i", "f", "i", "e", "d">>

\* " ".join(xs)
RECURSIVE JoinSpace(_)
JoinSpace(xs) ==
    IF xs = <<>> THEN <<>>
    ELSE IF Len(xs) = 1 THEN Head(xs)
    ELSE Head(xs) \o <<" ">> \o JoinSpace(Tail(xs))

\* list.extend(v.evidence): the items of a list, the characters of a str.
EvidenceItems(ev) ==
    IF ev.t = "list" THEN ev.items
    ELSE [i \in 1..Len(ev.s) |-> <<ev.s[i]>>]

RECURSIVE AllEvidence(_)
AllEvidence(verdicts) ==
    IF verdicts = <<>> THEN <<>>
    ELSE EvidenceItems(Head(verdicts).evidence) \o AllEvidence(Tail(verdicts))

\* A classification that looks for the numerical words before the temporal
\* ones.
IdentifyNumericalFirst(verdicts) ==
    LET combined == lower(JoinSpace([i \in 1..Len(verdicts) |->
                                       lower(verdicts[i].reasoning.s)]
                                    \o AllEvidence(verdicts)))
        any(k) == \E w \in MutationKeywords[k].words : Contains(combined, w)
    IN  [exc |-> "none",
         value |-> JStr(IF any(2) THEN MutationKeywords[2].type
                        ELSE IF any(1) THEN MutationKeywords[1].type
                        ELSE IF any(3) THEN MutationKeywords[3].type
                        ELSE IF any(4) THEN MutationKeywords[4].type
                        ELSE TypeUnspecified)]

\* VerdictSynthesizer._identify_mutation_type(debate_result): the exception
\* that leaves it ("none" when it returns) and the type it returns.
_identify_mutation_type(verdicts) ==
    LET all_reasoning == [i \in 1..Len(verdicts) |->
                            lower(verdicts[i].reasoning.s)]
        combined == lower(JoinSpace(all_reasoning \o AllEvidence(verdicts)))
        any(words) == \E w \in words : Contains(combined, w)
        first == CHOOSE k \in 1..Len(MutationKeywords) :
                    /\ any(MutationKeywords[k].words)
                    /\ \A j \in 1..(k - 1) : ~any(MutationKeywords[j].words)
    IN  IF \E i \in 1..Len(verdicts) :
              /\ \A j \in 1..(i - 1) : verdicts[j].reasoning.t = "str"
              /\ verdicts[i].evidence.t \notin {"list", "str"}
        THEN [exc |-> "TypeError", value |-> JNull]
        ELSE IF \E i \in 1..Len(verdicts) : verdicts[i].reasoning.t # "str"
        THEN [exc |-> "AttributeError", value |-> JNull]
        ELSE [exc |-> "none",
              value |-> IF \E k \in 1..Len(MutationKeywords) :
                              any(MutationKeywords[k].words)
                        THEN JStr(MutationKeywords[first].type)
                        ELSE JStr(TypeUnspecified)]

\* mutation_type=... if winner == "mutation" else None
MutationTypeFor(winner, verdicts) ==
    IF winner = MUTATION THEN _identify_mutation_type(verdicts)
    ELSE [exc |-> "none", value |-> JNull]

\* The key order of votes = {"faithful": 0.0, "mutation": 0.0, "uncertain": 0.0}.
LabelOrder == <<FAITHFUL, MUTATION, UNCERTAIN>>

\* A tally that gives every Verdict one vote, whatever its confidence.
TallyHeads(verdicts, votes) ==
    [l \in DOMAIN votes |->
        IntToDbl(Len(SelectSeq(verdicts, LAMBDA v : v.verdict = l)))]

\* for v in verdicts: votes[v.verdict] += v.confidence
RECURSIVE Tally(_, _)
Tally(verdicts, votes) ==
    IF verdicts = <<>> THEN votes
    ELSE Tally(Tail(verdicts),
               [votes EXCEPT ![Head(verdicts).verdict] =
                                 DAdd(@, Head(verdicts).confidence)])

\* max(votes, key=votes.get): the first key, in key order, of the largest
\* value.
RECURSIVE MaxFrom(_, _, _)
MaxFrom(keys, best, votes) ==
    IF keys = <<>> THEN best
    ELSE MaxFrom(Tail(keys),
                 IF DLess(votes[best], votes[Head(keys)]) THEN Head(keys)
                 ELSE best,
                 votes)

\* A choice of winner that ignores the totals.
FirstKey(votes) == Head(LabelOrder)

MaxKey(votes) == MaxFrom(Tail(LabelOrder), Head(LabelOrder), votes)

\* sum(xs) of floats, added left to right from 0.
RECURSIVE PySum(_, _)
PySum(xs, acc) ==
    IF xs = <<>> THEN acc ELSE PySum(Tail(xs), DAdd(acc, Head(xs)))

\* The slice bound of v.reasoning[:100] in the dissent lines.
DissentLimit == 100

\* VerdictSynthesizer._majority_vote(verdicts, debate_result).
_majority_vote(verdicts) ==
    LET votes  == Tally(verdicts, [l \in Labels |-> Lit.d00])
        winner == MaxKey(votes)
        total_confidence ==
            PySum([i \in 1..Len(LabelOrder) |-> votes[LabelOrder[i]]], DZero)
        final_confidence ==
            IF DLess(DZero, total_confidence)
            THEN DDiv(votes[winner], total_confidence) ELSE DZero
        losers == SelectSeq(verdicts, LAMBDA v : v.verdict # winner)
        dissenting ==
            [i \in 1..Len(losers) |->
               [agent_name |-> losers[i].agent_name,
                text |-> Prefix(losers[i].reasoning.s, DissentLimit)
                           \o <<".", ".", ".">>]]
        vote_summary ==
            [i \in 1..Len(verdicts) |->
               [agent_name |-> verdicts[i].agent_name,
                verdict |-> verdicts[i].verdict]]
        mtype == MutationTypeFor(winner, verdicts)
    IN  IF \E i \in 1..Len(verdicts) : verdicts[i].verdict \notin Labels
        THEN SynthRaised("KeyError")
        ELSE IF \E i \in 1..Len(losers) :
                   losers[i].reasoning.t \notin {"str", "list"}
        THEN SynthRaised("TypeError")
        ELSE IF mtype.exc # "none" THEN SynthRaised(mtype.exc)
        ELSE Synthesized(FinalVerdict(winner, final_confidence,
                 [kind |-> "Majority vote", votes |-> vote_summary,
                  winner |-> winner],
                 dissenting, mtype.value))

\* A unanimity rule that falls back to the weighted majority on a split.
UnanimousOrMajority(verdicts) == _majority_vote(verdicts)

\* VerdictSynthesizer._unanimous_vote(verdicts, debate_result).
_unanimous_vote(verdicts) ==
    LET verdict_set == {verdicts[i].verdict : i \in 1..Len(verdicts)}
        unanimous   == Cardinality(verdict_set) = 1
        winner      == IF unanimous THEN CHOOSE l \in verdict_set : TRUE
                       ELSE UNCERTAIN
        avg_confidence ==
            IF unanimous
            THEN DDiv(PySum([i \in 1..Len(verdicts) |->
                               verdicts[i].confidence], DZero),
                      IntToDbl(Len(verdicts)))
            ELSE Lit.d05
        dissenting ==
            IF unanimous THEN <<>>
            ELSE [i \in 1..Len(verdicts) |->
                    [agent_name |-> verdicts[i].agent_name,
                     verdict |-> verdicts[i].verdict]]
        mtype == MutationTypeFor(winner, verdicts)
    IN  IF mtype.exc # "none" THEN SynthRaised(mtype.exc)
        ELSE Synthesized(FinalVerdict(winner, avg_confidence,
                 [kind |-> IF unanimous THEN "Unanimous agreement"
                           ELSE "No consensus",
                  votes |-> [i \in 1..Len(verdicts) |-> verdicts[i].verdict],
                  winner |-> winner],
                 dissenting, mtype.value))

\* VerdictSynthesizer._llm_synthesis(debate_result): judge is what the
\* generator call gives, an exception or a response.
_llm_synthesis(judge) ==
    LET r      == judge.response
        region == re_search(Raw(r))
        loaded == json_loads(r, region)
        vv     == get(loaded.data.verdict, JStr(UNCERTAIN))
        cc     == float(get(loaded.data.confidence, JNum(<<"0", ".", "5">>)))
        fallback == Synthesized(FinalVerdict(UNCERTAIN, Lit.d05,
                        JStr(Prefix(Raw(r), ReasoningLimit)), JList(<<>>),
                        JNull))
    IN  IF judge.exc # "none" THEN SynthRaised(judge.exc)
        ELSE IF region = <<>> \/ ~loaded.ok THEN fallback
        ELSE IF vv.t # "str" THEN SynthRaised("AttributeError")
        ELSE IF cc.exc = "ValueError" THEN fallback
        ELSE IF cc.exc # "none" THEN SynthRaised(cc.exc)
        ELSE Synthesized(FinalVerdict(lower(vv.s), cc.value,
                 get(loaded.data.reasoning, JStr(NoReasoningProvided)),
                 get(loaded.data.dissenting_opinions, JList(<<>>)),
                 get(loaded.data.mutation_type, JNull)))

\* VerdictSynthesizer.synthesize(debate_result) under self.strategy.
synthesize(strategy, verdicts, judge) ==
    IF strategy = "majority" THEN _majority_vote(verdicts)
    ELSE IF strategy = "unanimous" THEN _unanimous_vote(verdicts)
    ELSE _llm_synthesis(judge)

\* parse_final_verdict(output): the dict it returns, as a FinalVerdict.
parse_final_verdict(r) ==
    LET region == re_search(Raw(r))
        loaded == json_loads(r, region)
        vv     == get(loaded.data.verdict, JStr(UNCERTAIN))
        cc     == float(get(loaded.data.confidence, JNum(<<"0", ".", "5">>)))
        fallback == Synthesized(FinalVerdict(FallbackLabel(Raw(r)), Lit.d05,
                        JStr(IF Raw(r) # <<>>
                             THEN Prefix(Raw(r), ReasoningLimit)
                             ELSE <<"N", "o", " ", "r", "e", "a", "s",
                                    "o", "n", "i", "n", "g">>),
                        JList(<<>>), JNull))
    IN  IF region = <<>> \/ ~loaded.ok THEN fallback
        ELSE IF vv.t # "str" THEN SynthRaised("AttributeError")
        ELSE IF cc.exc = "ValueError" THEN fallback
        ELSE IF cc.exc # "none" THEN SynthRaised(cc.exc)
        ELSE Synthesized(FinalVerdict(lower(vv.s), cc.value,
                 get(loaded.data.reasoning, JStr(NoReasoningProvided)),
                 get(loaded.data.dissenting_opinions, JList(<<>>)),
                 get(loaded.data.mutation_type, JNull)))

(***************************************************************************)
(* State.                                                                  *)
(***************************************************************************)
VARIABLES
    \* A generator response and what each parser makes of it.
    response, parsed_agent, parsed_crew, parsed_single,
    \* What the two parsers of a judge's response make of it.
    parsed_final, parsed_synthesis,
    \* DebateProtocol: its configuration, the round-1 futures, the locals
    \* of _collect_initial_verdicts and _run_debate_round, the DebateResult
    \* and the synthesizer's strategy and FinalVerdict.
    agents, mode, max_rounds, parallel, pc, futures, verdicts,
    round_num, responses, initial_verdicts, debate_rounds,
    strategy, final,
    \* What each agent's analyze call gave, by roster position.
    analyzed,
    \* What each respond_to call put into its prompt.
    prompts,
    \* A reordering of initial_verdicts and its FinalVerdict.
    reordered, final_reordered,
    \* FactCheckCrew.run_debate: max_rounds, the loop position, the locals
    \* and the CrewDebateResult.
    crew_max_rounds, crew_pc, crew_round, crew_agent, round_verdicts,
    all_verdicts, crew_rounds, current_context, round_context,
    consensus_status, crew_result,
    \* The calls run_debate has made to the caller's progress callbacks.
    callbacks,
    \* stream_debate, iterative paradigm: where debate_thread is, how many
    \* event_queue.get calls have returned an event, where the consumer
    \* loop is, and the events the generator has yielded.
    debate_thread, taken, consumer, stream

parse_vars == <<response, parsed_agent, parsed_crew, parsed_single,
               parsed_final, parsed_synthesis>>

protocol_vars == <<agents, mode, max_rounds, parallel, pc, futures, verdicts,
                   round_num, responses, initial_verdicts, debate_rounds,
                   strategy, final, analyzed, prompts>>

reorder_vars == <<reordered, final_reordered>>

crew_vars == <<crew_max_rounds, crew_pc, crew_round, crew_agent,
               round_verdicts, all_verdicts, crew_rounds, current_context,
               round_context, consensus_status, crew_result, callbacks>>

stream_vars == <<debate_thread, taken, consumer, stream>>

vars == <<parse_vars, protocol_vars, reorder_vars, crew_vars, stream_vars>>

\* A call that has not been made.
NotCalled == [exc |-> "pending", v |-> NoVerdict]

NotSynthesized == [exc |-> "pending", fv |-> NoFinal]

\* CrewDebateResult(...) and the state of a run_debate call: exc is
\* "pending" while it runs, "none" when it returned, else the exception that
\* left it, raised at a debater's call ("agent"), at the majority vote
\* ("majority") or at the judge's call ("judge").
NoCrewResult ==
    [initial_verdicts |-> <<>>, debate_rounds |-> <<>>, final_verdict |-> <<>>,
     final_confidence |-> DZero, final_reasoning |-> JAbsent,
     mutation_type |-> JNull, dissenting_opinions |-> JAbsent]

CrewRunning == [exc |-> "pending", at |-> "", result |-> NoCrewResult]

CrewRaised(e, at) == [exc |-> e, at |-> at, result |-> NoCrewResult]

CrewReturned(result) == [exc |-> "none", at |-> "", result |-> result]

NoStatus == [reached_consensus |-> FALSE, rounds |-> 0, majority_verdict |-> <<>>]

\* The parts of the state a specification does not use; IdleCrew covers the
\* crew and the stream that runs it.
IdleParse ==
    /\ response = Response(<<>>, "none", NoObject, <<>>, <<>>)
    /\ parsed_agent = NotCalled
    /\ parsed_crew = NotCalled
    /\ parsed_single = NotCalled
    /\ parsed_final = NotSynthesized
    /\ parsed_synthesis = NotSynthesized

IdleProtocol ==
    /\ agents = <<>>
    /\ mode = "one-shot"
    /\ max_rounds = 0
    /\ parallel = FALSE
    /\ pc = "idle"
    /\ futures = <<>>
    /\ verdicts = <<>>
    /\ round_num = 0
    /\ responses = <<>>
    /\ initial_verdicts = <<>>
    /\ debate_rounds = <<>>
    /\ strategy = "none"
    /\ final = NotSynthesized
    /\ analyzed = <<>>
    /\ prompts = <<>>

IdleReorder ==
    /\ reordered = <<>>
    /\ final_reordered = NotSynthesized

IdleCrew ==
    /\ crew_max_rounds = 0
    /\ crew_pc = "idle"
    /\ crew_round = 0
    /\ crew_agent = 0
    /\ round_verdicts = <<>>
    /\ all_verdicts = <<>>
    /\ crew_rounds = <<>>
    /\ current_context = <<>>
    /\ round_context = <<>>
    /\ consensus_status = NoStatus
    /\ crew_result = CrewRunning
    /\ callbacks = <<>>
    /\ debate_thread = "idle"
    /\ taken = 0
    /\ consumer = "idle"
    /\ stream = <<>>

(***************************************************************************)
(* The parsers on sample responses.                                        *)
(***************************************************************************)
\* Response texts, reasonings and exception texts of the samples.
Txt ==
    [MostlyFaithful |->
        <<"I", " ", "b", "e", "l", "i", "e", "v", "e", " ", "t", "h", "i",
        "s", " ", "i", "s", " ", "m", "o", "s", "t", "l", "y", " ", "f", "a",
        "i", "t", "h", "f", "u", "l", " ", "b", "u", "t", " ", "m", "i", "s",
        "s", "i", "n", "g", " ", "d", "a", "t", "e", "s">>,
     ClearMutation |->
        <<"A", " ", "c", "l", "e", "a", "r", " ", "M", "u", "t", "a", "t",
        "i", "o", "n", " ", "o", "f", " ", "t", "h", "e", " ", "s", "o", "u",
        "r", "c", "e">>,
     Unsure |->
        <<"H", "a", "r", "d", " ", "t", "o", " ", "s", "a", "y">>,
     Dates |->
        <<"t", "h", "e", " ", "d", "a", "t", "e", "s", " ", "d", "i", "f", "f",
        "e", "r">>,
     Matches |->
        <<"t", "h", "e", " ", "w", "o", "r", "d", "i", "n", "g", " ", "m", "a",
        "t", "c", "h", "e", "s">>,
     Notes |->
        <<" ", "{", "s", "e", "e", " ", "n", "o", "t", "e", "s", "}">>,
     Junk |->
        <<"m", "u", "t", "a", "t", "i", "o", "n", ",", " ", "0", ".", "8">>,
     Timeout |->
        <<"t", "i", "m", "e", "o", "u", "t">>]

\* The values a generator puts under "verdict" and "confidence".
SampleLabels ==
    {JAbsent, JStr(FAITHFUL), JStr(<<"F", "a", "i", "t", "h", "f", "u", "l">>),
     JStr(<<"M", "U", "T", "A", "T", "I", "O", "N">>),
     JStr(<<"m", "a", "y", "b", "e">>), JNull, JNum(<<"7">>)}

SampleConfidences ==
    {JAbsent, JNum(<<"0", ".", "9">>), JNum(<<"1", ".", "5">>),
     JNum(<<"1">>), JStr(<<"0", ".", "7">>), JStr(<<"h", "i", "g", "h">>),
     JNull}

SampleObjects ==
    {[verdict |-> l, confidence |-> c, reasoning |-> r, evidence |-> e,
      mutation_type |-> JAbsent, dissenting_opinions |-> JAbsent] :
        l \in SampleLabels, c \in SampleConfidences,
        r \in {JAbsent, JStr(Txt.Dates)},
        e \in {JAbsent, JList(<<Txt.Dates>>)}}

SampleResponses ==
    {Response(pre, "none", NoObject, <<>>, <<>>) :
        pre \in {<<>>, Txt.MostlyFaithful, Txt.ClearMutation, Txt.Unsure}}
    \cup {Response(pre, "garbage", NoObject, Txt.Junk, <<>>) :
        pre \in {<<>>, Txt.MostlyFaithful, Txt.Unsure}}
    \cup {Response(pre, "object", o, <<>>, post) :
        pre \in {<<>>, Txt.Unsure}, o \in SampleObjects,
        post \in {<<>>, Txt.Notes}}

InitParse ==
    /\ response \in SampleResponses
    /\ parsed_agent = NotCalled
    /\ parsed_crew = NotCalled
    /\ parsed_single = NotCalled
    /\ parsed_final = NotSynthesized
    /\ parsed_synthesis = NotSynthesized
    /\ IdleProtocol /\ IdleReorder /\ IdleCrew

\* response -> BaseAgent._parse_verdict(response), for the first agent.
ParseAgent ==
    /\ parsed_agent = NotCalled
    /\ parsed_agent' = _parse_verdict("Literalist", response)
    /\ UNCHANGED <<response, parsed_crew, parsed_single, parsed_final,
                   parsed_synthesis, protocol_vars, reorder_vars, crew_vars, stream_vars>>

\* output -> parse_verdict_from_output(output, name), for the first debater.
ParseCrew ==
    /\ parsed_crew = NotCalled
    /\ parsed_crew' = parse_verdict_from_output(response, "The Numerical Hawk")
    /\ UNCHANGED <<response, parsed_agent, parsed_single, parsed_final,
                   parsed_synthesis, protocol_vars, reorder_vars, crew_vars, stream_vars>>

\* content -> the Verdict SingleAgentBaseline.analyze puts in its result.
ParseSingle ==
    /\ parsed_single = NotCalled
    /\ parsed_single' = SingleAgentBaseline_analyze(response)
    /\ UNCHANGED <<response, parsed_agent, parsed_crew, parsed_final,
                   parsed_synthesis, protocol_vars, reorder_vars, crew_vars, stream_vars>>

\* str(result) of the judge's crew -> parse_final_verdict(output).
ParseFinal ==
    /\ parsed_final = NotSynthesized
    /\ parsed_final' = parse_final_verdict(response)
    /\ UNCHANGED <<response, parsed_agent, parsed_crew, parsed_single,
                   parsed_synthesis, protocol_vars, reorder_vars, crew_vars, stream_vars>>

\* The judge's content -> the FinalVerdict of _llm_synthesis.
ParseSynthesis ==
    /\ parsed_synthesis = NotSynthesized
    /\ parsed_synthesis' = _llm_synthesis([exc |-> "none", response |-> response])
    /\ UNCHANGED <<response, parsed_agent, parsed_crew, parsed_single,
                   parsed_final, protocol_vars, reorder_vars, crew_vars, stream_vars>>

NextParse ==
    ParseAgent \/ ParseCrew \/ ParseSingle \/ ParseFinal \/ ParseSynthesis

SpecParse == InitParse /\ [][NextParse]_vars

(***************************************************************************)
(* The synthesizer on sample Verdict lists, and on a reordering of each.   *)
(***************************************************************************)
\* The largest Verdict list the synthesizer is given.
MaxVerdicts == 4

\* The display names of the agent classes (agents/*.py), in the order of
\* AVAILABLE_AGENTS; a roster longer than three repeats them.
AgentNames == <<"Literalist", "Contextualist", "Statistician">>

RosterName(i) == AgentNames[((i - 1) % Len(AgentNames)) + 1]

\* The label and confidence of a sample Verdict.
SampleVotes ==
    {<<FAITHFUL, ParseFloat(<<"0", ".", "6">>)>>,
     <<FAITHFUL, ParseFloat(<<"0", ".", "1">>)>>,
     <<MUTATION, ParseFloat(<<"0", ".", "1">>)>>,
     <<MUTATION, ParseFloat(<<"0", ".", "4">>)>>,
     <<UNCERTAIN, Lit.d00>>,
     <<UNCERTAIN, ParseFloat(<<"0", ".", "4">>)>>}

SampleVerdict(i, vote) ==
    AgentVerdict(RosterName(i), vote[1], vote[2],
                 JStr(IF vote[1] = FAITHFUL THEN Txt.Matches ELSE Txt.Dates),
                 JList(<<>>))

SampleVerdictLists ==
    UNION {{[i \in 1..n |-> SampleVerdict(i, f[i])] :
               f \in [1..n -> SampleVotes]} : n \in 1..MaxVerdicts}

\* A three-agent roster, every agent answering mutation at confidence 0.7.
ThreeMutationsAt07 ==
    [i \in 1..3 |->
        SampleVerdict(i, <<MUTATION, ParseFloat(<<"0", ".", "7">>)>>)]

\* Reasoning texts and evidence lists with the vocabulary of each kind of
\* mutation, and with none.
SampleReasonings ==
    {Txt.Matches, Txt.Dates,
     <<"T", "h", "e", " ", "F", "i", "g", "u", "r", "e", " ", "i", "s", " ", "o", "f", "f">>,
     <<"a", " ", "c", "a", "v", "e", "a", "t", " ", "i", "s", " ", "g", "o", "n", "e">>,
     <<"t", "h", "e", " ", "f", "r", "a", "m", "i", "n", "g", " ", "s", "h", "i", "f", "t", "s">>}

SampleEvidence ==
    {<<>>, <<Txt.Dates>>,
     <<<<"M", "o", "r", "e", " ", "T", "h", "a", "n", " ", "h", "a", "l", "f">>>>}

\* One or two agents answering mutation, each with its own wording.
WordedVerdictLists ==
    UNION {{[i \in 1..n |->
               AgentVerdict(RosterName(i), MUTATION,
                            ParseFloat(<<"0", ".", "4">>),
                            JStr(r[i]), JList(e[i]))] :
               r \in [1..n -> SampleReasonings],
               e \in [1..n -> SampleEvidence]} : n \in 1..2}

Reverse(xs) == [i \in 1..Len(xs) |-> xs[Len(xs) + 1 - i]]

Rotate(xs) == IF xs = <<>> THEN xs ELSE Tail(xs) \o <<Head(xs)>>

\* No generator call (the majority and unanimous strategies make none).
NoJudge == [exc |-> "none",
            response |-> Response(<<>>, "none", NoObject, <<>>, <<>>)]

InitSynth ==
    /\ initial_verdicts \in
          SampleVerdictLists \cup {ThreeMutationsAt07} \cup WordedVerdictLists
    /\ reordered \in {Reverse(initial_verdicts), Rotate(initial_verdicts)}
    /\ final_reordered = NotSynthesized
    /\ agents = <<>> /\ mode = "one-shot" /\ max_rounds = 0
    /\ parallel = FALSE /\ pc = "synthesize" /\ futures = <<>>
    /\ verdicts = <<>> /\ round_num = 0 /\ responses = <<>>
    /\ debate_rounds = <<>> /\ strategy = "none" /\ final = NotSynthesized
    /\ analyzed = <<>> /\ prompts = <<>>
    /\ IdleParse /\ IdleCrew

\* synthesizer.synthesize(debate_result) with a strategy that calls no
\* generator.
SynthesizeList(st) ==
    /\ pc = "synthesize"
    /\ strategy' = st
    /\ final' = synthesize(st, initial_verdicts, NoJudge)
    /\ pc' = "done"
    /\ UNCHANGED <<agents, mode, max_rounds, parallel, futures, verdicts,
                   round_num, responses, initial_verdicts, debate_rounds,
                   analyzed>>
    /\ UNCHANGED <<prompts, parse_vars, reorder_vars, crew_vars, stream_vars>>

\* The same synthesizer on the reordered list.
SynthesizeReordered ==
    /\ pc = "done"
    /\ final_reordered = NotSynthesized
    /\ final_reordered' = synthesize(strategy, reordered, NoJudge)
    /\ UNCHANGED <<reordered, parse_vars, protocol_vars, crew_vars, stream_vars>>

NextSynth ==
    \/ \E st \in {"majority", "unanimous"} : SynthesizeList(st)
    \/ SynthesizeReordered

SpecSynth == InitSynth /\ [][NextSynth]_vars

(***************************************************************************)
(* DebateProtocol.run_debate followed by VerdictSynthesizer.synthesize.    *)
(***************************************************************************)
\* The most deliberation rounds a protocol is constructed with.
MaxDebateRounds == 2

\* The agent lists a protocol is constructed with.
Rosters == {SubSeq(AgentNames, 1, n) : n \in 1..Len(AgentNames)}

\* str(e) of the exceptions that occur.
ExceptionText(e) ==
    CASE e = "AttributeError" ->
          <<"'", "N", "o", "n", "e", "T", "y", "p", "e", "'", " ", "o", "b", "j",
           "e", "c", "t", " ", "h", "a", "s", " ", "n", "o", " ", "a", "t", "t",
           "r", "i", "b", "u", "t", "e", " ", "'", "l", "o", "w", "e", "r", "'">>
      [] e = "TypeError" ->
          <<"f", "l", "o", "a", "t", "(", ")", " ", "a", "r", "g", "u", "m", "e",
           "n", "t", " ", "m", "u", "s", "t", " ", "b", "e", " ", "a", " ", "s",
           "t", "r", "i", "n", "g", " ", "o", "r", " ", "a", " ", "r", "e", "a",
           "l", " ", "n", "u", "m", "b", "e", "r">>
      [] OTHER                -> Txt.Timeout

\* What the generator answers an agent's analyze prompt with.
AnalyzeResponses ==
    {Response(<<>>, "object",
              [NoObject EXCEPT !.verdict = JStr(FAITHFUL),
                               !.confidence = JNum(<<"0", ".", "9">>),
                               !.reasoning = JStr(Txt.Matches)],
              <<>>, <<>>),
     Response(<<>>, "object",
              [NoObject EXCEPT !.verdict = JStr(MUTATION),
                               !.confidence = JNum(<<"0", ".", "8">>),
                               !.reasoning = JStr(Txt.Dates)],
              <<>>, <<>>),
     Response(<<>>, "object",
              [NoObject EXCEPT !.verdict = JNull,
                               !.reasoning = JStr(Txt.Unsure)],
              <<>>, <<>>)}

\* agent.analyze(claim, truth): _call_llm raises, or its response goes
\* through _parse_verdict.
analyze(name) ==
    {Raised("TimeoutError")}
        \cup {_parse_verdict(name, r) : r \in AnalyzeResponses}

\* The Verdict an except branch of _collect_initial_verdicts appends.
ErrorVerdict(name, e) ==
    AgentVerdict(name, UNCERTAIN, Lit.d00,
                 JStr(ErrorPrefix \o ExceptionText(e)), JList(<<>>))

\* A collection step without its except branch.
Uncaught(name, result) == result

\* try: verdict = <the call's result> except Exception as e: <placeholder>
Collected(name, result) ==
    IF result.exc = "none" THEN Returned(result.v)
    ELSE Returned(ErrorVerdict(name, result.exc))

\* agent.respond_to(verdicts, claim, truth) inside _run_debate_round's try:
\* the reply, or the bracketed error text.
TxtErrorResponse ==
    <<"[", "E", "r", "r", "o", "r", " ", "g", "e", "n", "e", "r", "a", "t",
      "i", "n", "g", " ", "r", "e", "s", "p", "o", "n", "s", "e", ":", " ">>

\* The agents whose call raises are the first of the roster, so that a
\* round is any of the splits 0/n, 1/(n - 1), ..., n/0.
RoundResponses(name, sofar) ==
    {[agent |-> name, response |-> Txt.Matches]}
        \cup (IF \A j \in 1..Len(sofar) : sofar[j].response # Txt.Matches
              THEN {[agent |-> name,
                     response |-> TxtErrorResponse
                                     \o ExceptionText("TimeoutError")
                                     \o <<"]">>]}
              ELSE {})

\* A rebuttal prompt that lists every Verdict it is given, the agent's own
\* too.
RespondToAll(name, other_verdicts) ==
    [agent |-> name, verdicts |-> other_verdicts, responses |-> <<>>]

\* BaseAgent.respond_to(other_verdicts, claim, truth), self.name = name:
\* what its prompt carries. verdicts_text lists the Verdicts of the list it
\* is given that are not the agent's own; it is given no DebateRound, so
\* the prompt carries no response of an earlier round.
respond_to(name, other_verdicts) ==
    [agent |-> name,
     verdicts |-> SelectSeq(other_verdicts, LAMBDA v : v.agent_name # name),
     responses |-> <<>>]

\* What the generator gives the synthesizer's judge prompt.
JudgeOutcomes ==
    {[exc |-> "TimeoutError",
      response |-> Response(<<>>, "none", NoObject, <<>>, <<>>)],
     [exc |-> "none",
      response |-> Response(<<>>, "object",
                       [NoObject EXCEPT !.verdict = JStr(MUTATION),
                                        !.confidence = JNum(<<"0", ".", "9">>),
                                        !.reasoning = JStr(Txt.Dates)],
                       <<>>, <<>>)],
     [exc |-> "none",
      response |-> Response(Txt.Unsure, "none", NoObject, <<>>, <<>>)]}

InitProtocol ==
    /\ agents \in Rosters
    /\ mode \in {"one-shot", "deliberation"}
    /\ max_rounds \in 0..MaxDebateRounds
    /\ parallel \in BOOLEAN
    /\ pc = "run_debate"
    /\ futures = <<>>
    /\ verdicts = <<>>
    /\ round_num = 0
    /\ responses = <<>>
    /\ initial_verdicts = <<>>
    /\ debate_rounds = <<>>
    /\ strategy = "none"
    /\ final = NotSynthesized
    /\ analyzed = [i \in 1..Len(agents) |-> NotCalled]
    /\ prompts = <<>>
    /\ IdleParse /\ IdleReorder /\ IdleCrew

\* _collect_initial_verdicts, parallel branch: every agent.analyze is
\* submitted to the executor.
SubmitAll ==
    /\ pc = "run_debate"
    /\ parallel /\ Len(agents) > 1
    /\ verdicts' = <<>>
    /\ futures' = [i \in 1..Len(agents) |->
                      [state |-> "running", result |-> NotCalled]]
    /\ pc' = "as_completed"
    /\ UNCHANGED <<agents, mode, max_rounds, parallel, round_num, responses,
                   initial_verdicts, debate_rounds, strategy, final, analyzed>>
    /\ UNCHANGED <<prompts, parse_vars, reorder_vars, crew_vars, stream_vars>>

\* A worker thread finishes agents[i].analyze.
FutureDone(i) ==
    /\ pc = "as_completed"
    /\ futures[i].state = "running"
    /\ \E result \in analyze(agents[i]) :
          /\ futures' = [futures EXCEPT
                            ![i] = [state |-> "done", result |-> result]]
          /\ analyzed' = [analyzed EXCEPT ![i] = result]
    /\ UNCHANGED <<agents, mode, max_rounds, parallel, pc, verdicts,
                   round_num, responses, initial_verdicts, debate_rounds,
                   strategy, final>>
    /\ UNCHANGED <<prompts, parse_vars, reorder_vars, crew_vars, stream_vars>>

\* A collection that names the placeholder after the roster position of the
\* yield instead of the future's agent.
CollectFutureByPosition(i) ==
    /\ pc = "as_completed"
    /\ futures[i].state = "done"
    /\ verdicts' = Append(verdicts,
                          Collected(agents[Len(verdicts) + 1],
                                    futures[i].result).v)
    /\ futures' = [futures EXCEPT ![i].state = "yielded"]
    /\ UNCHANGED <<agents, mode, max_rounds, parallel, pc, round_num,
                   responses, initial_verdicts, debate_rounds, strategy,
                   final, analyzed>>
    /\ UNCHANGED <<prompts, parse_vars, reorder_vars, crew_vars, stream_vars>>

\* as_completed yields a finished future; future.result() is appended, or
\* the placeholder when it raises.
CollectFuture(i) ==
    /\ pc = "as_completed"
    /\ futures[i].state = "done"
    /\ LET got == Collected(agents[i], futures[i].result)
       IN  IF got.exc = "none"
           THEN /\ verdicts' = Append(verdicts, got.v)
                /\ pc' = pc
           ELSE /\ verdicts' = verdicts
                /\ pc' = "raised"
    /\ futures' = [futures EXCEPT ![i].state = "yielded"]
    /\ UNCHANGED <<agents, mode, max_rounds, parallel, round_num, responses,
                   initial_verdicts, debate_rounds, strategy, final, analyzed>>
    /\ UNCHANGED <<prompts, parse_vars, reorder_vars, crew_vars, stream_vars>>

\* _collect_initial_verdicts, sequential branch entered.
StartSequential ==
    /\ pc = "run_debate"
    /\ ~(parallel /\ Len(agents) > 1)
    /\ verdicts' = <<>>
    /\ pc' = "sequential"
    /\ UNCHANGED <<agents, mode, max_rounds, parallel, futures, round_num,
                   responses, initial_verdicts, debate_rounds, strategy,
                   final, analyzed>>
    /\ UNCHANGED <<prompts, parse_vars, reorder_vars, crew_vars, stream_vars>>

\* One iteration of the sequential loop: the next agent's analyze call and
\* its try/except.
AnalyzeNext ==
    /\ pc = "sequential"
    /\ Len(verdicts) < Len(agents)
    /\ LET i == Len(verdicts) + 1
       IN  \E result \in analyze(agents[i]) :
              /\ analyzed' = [analyzed EXCEPT ![i] = result]
              /\ LET got == Collected(agents[i], result)
                 IN  IF got.exc = "none"
                     THEN /\ verdicts' = Append(verdicts, got.v)
                          /\ pc' = pc
                     ELSE /\ verdicts' = verdicts
                          /\ pc' = "raised"
    /\ UNCHANGED <<agents, mode, max_rounds, parallel, futures, round_num,
                   responses, initial_verdicts, debate_rounds, strategy,
                   final>>
    /\ UNCHANGED <<prompts, parse_vars, reorder_vars, crew_vars, stream_vars>>

\* A return that does not wait for the futures still running.
CollectReturnEarly ==
    /\ pc \in {"as_completed", "sequential"}
    /\ initial_verdicts' = verdicts
    /\ debate_rounds' = <<>>
    /\ round_num' = 0
    /\ pc' = "deliberate"
    /\ UNCHANGED <<agents, mode, max_rounds, parallel, futures, verdicts,
                   responses, strategy, final, analyzed>>
    /\ UNCHANGED <<prompts, parse_vars, reorder_vars, crew_vars, stream_vars>>

\* return verdicts; run_debate binds initial_verdicts and debate_rounds.
CollectReturn ==
    /\ \/ pc = "as_completed"
          /\ \A i \in 1..Len(agents) : futures[i].state = "yielded"
       \/ pc = "sequential" /\ Len(verdicts) = Len(agents)
    /\ initial_verdicts' = verdicts
    /\ debate_rounds' = <<>>
    /\ round_num' = 0
    /\ pc' = "deliberate"
    /\ UNCHANGED <<agents, mode, max_rounds, parallel, futures, verdicts,
                   responses, strategy, final, analyzed>>
    /\ UNCHANGED <<prompts, parse_vars, reorder_vars, crew_vars, stream_vars>>

\* if self.mode == "deliberation" and self.max_rounds > 0
Deliberates == mode = "deliberation" /\ max_rounds > 0

\* The next round_num of range(1, max_rounds + 1): _run_debate_round starts.
StartRound ==
    /\ pc = "deliberate"
    /\ Deliberates /\ round_num < max_rounds
    /\ round_num' = round_num + 1
    /\ responses' = <<>>
    /\ pc' = "round"
    /\ UNCHANGED <<agents, mode, max_rounds, parallel, futures, verdicts,
                   initial_verdicts, debate_rounds, strategy, final,
                   analyzed>>
    /\ UNCHANGED <<prompts, parse_vars, reorder_vars, crew_vars, stream_vars>>

\* One iteration of _run_debate_round's loop.
Respond ==
    /\ pc = "round"
    /\ Len(responses) < Len(agents)
    /\ \E r \in RoundResponses(agents[Len(responses) + 1], responses) :
          responses' = Append(responses, r)
    /\ prompts' = Append(prompts,
                         [round |-> round_num,
                          prompt |-> respond_to(agents[Len(responses) + 1],
                                                initial_verdicts)])
    /\ UNCHANGED <<agents, mode, max_rounds, parallel, pc, futures, verdicts,
                   round_num, initial_verdicts, debate_rounds, strategy,
                   final, analyzed>>
    /\ UNCHANGED <<parse_vars, reorder_vars, crew_vars, stream_vars>>

\* return DebateRound(round_number, responses); debate_rounds.append(...)
EndRound ==
    /\ pc = "round"
    /\ Len(responses) = Len(agents)
    /\ debate_rounds' = Append(debate_rounds,
                               [round_number |-> round_num,
                                responses |-> responses])
    /\ pc' = "deliberate"
    /\ UNCHANGED <<agents, mode, max_rounds, parallel, futures, verdicts,
                   round_num, responses, initial_verdicts, strategy, final,
                   analyzed>>
    /\ UNCHANGED <<prompts, parse_vars, reorder_vars, crew_vars, stream_vars>>

\* return DebateResult(...)
ReturnResult ==
    /\ pc = "deliberate"
    /\ ~Deliberates \/ round_num = max_rounds
    /\ pc' = "returned"
    /\ UNCHANGED <<agents, mode, max_rounds, parallel, futures, verdicts,
                   round_num, responses, initial_verdicts, debate_rounds,
                   strategy, final, analyzed>>
    /\ UNCHANGED <<prompts, parse_vars, reorder_vars, crew_vars, stream_vars>>

\* VerdictSynthesizer(strategy=st).synthesize(debate_result)
Synthesize(st, judge) ==
    /\ pc = "returned"
    /\ strategy' = st
    /\ final' = synthesize(st, initial_verdicts, judge)
    /\ pc' = "synthesized"
    /\ UNCHANGED <<agents, mode, max_rounds, parallel, futures, verdicts,
                   round_num, responses, initial_verdicts, debate_rounds,
                   analyzed>>
    /\ UNCHANGED <<prompts, parse_vars, reorder_vars, crew_vars, stream_vars>>

NextProtocol ==
    \/ SubmitAll
    \/ \E i \in 1..Len(agents) : FutureDone(i)
    \/ \E i \in 1..Len(agents) : CollectFuture(i)
    \/ StartSequential
    \/ AnalyzeNext
    \/ CollectReturn
    \/ StartRound
    \/ Respond
    \/ EndRound
    \/ ReturnResult
    \/ \E st \in {"majority", "unanimous"} : Synthesize(st, NoJudge)
    \/ \E st \in {"llm", "weighted"}, judge \in JudgeOutcomes :
          Synthesize(st, judge)

SpecProtocol == InitProtocol /\ [][NextProtocol]_vars

(***************************************************************************)
(* FactCheckCrew.run_debate (debate/crew.py).                              *)
(***************************************************************************)
\* self.agents: the five debaters, in roster order.
CrewAgents ==
    <<"The Numerical Hawk", "The Temporal Detective",
      "The Spirit-of-the-Law Defender", "The Harm Assessor",
      "The Devil's Advocate">>

\* vote_counts[v.verdict] = vote_counts.get(v.verdict, 0) + 1 over the
\* verdicts: the dict as its items in insertion order.
RECURSIVE VoteCounts(_, _)
VoteCounts(vs, vote_counts) ==
    IF vs = <<>> THEN vote_counts
    ELSE LET l == Head(vs).verdict
         IN  VoteCounts(Tail(vs),
                 IF \E k \in 1..Len(vote_counts) : vote_counts[k].label = l
                 THEN [k \in 1..Len(vote_counts) |->
                         IF vote_counts[k].label = l
                         THEN [label |-> l, count |-> vote_counts[k].count + 1]
                         ELSE vote_counts[k]]
                 ELSE Append(vote_counts, [label |-> l, count |-> 1]))

\* A consensus check that asks for more than the threshold.
CheckConsensusAbove(vs) ==
    LET vote_counts == VoteCounts(vs, <<>>)
    IN  \E k \in 1..Len(vote_counts) :
           DLess(Lit.d08, DDiv(IntToDbl(vote_counts[k].count),
                             IntToDbl(Len(vs))))

\* FactCheckCrew._check_consensus(verdicts, threshold=0.8)
_check_consensus(vs) ==
    LET vote_counts == VoteCounts(vs, <<>>)
        total       == Len(vs)
    IN  \E k \in 1..Len(vote_counts) :
           DLeq(Lit.d08, DDiv(IntToDbl(vote_counts[k].count), IntToDbl(total)))

\* A majority that keeps the last key of the largest count.
MajorityLastSeen(vs) ==
    LET vote_counts == VoteCounts(vs, <<>>)
        best == CHOOSE k \in 1..Len(vote_counts) :
                   /\ \A j \in 1..Len(vote_counts) :
                         vote_counts[j].count <= vote_counts[k].count
                   /\ \A j \in (k + 1)..Len(vote_counts) :
                         vote_counts[j].count < vote_counts[k].count
    IN  IF vote_counts = <<>> THEN [exc |-> "ValueError", label |-> <<>>]
        ELSE [exc |-> "none", label |-> vote_counts[best].label]

\* FactCheckCrew._get_majority_verdict(verdicts): max(vote_counts,
\* key=vote_counts.get), the first key of the largest count; ValueError on
\* an empty dict.
_get_majority_verdict(vs) ==
    LET vote_counts == VoteCounts(vs, <<>>)
        best == CHOOSE k \in 1..Len(vote_counts) :
                   /\ \A j \in 1..Len(vote_counts) :
                         vote_counts[j].count <= vote_counts[k].count
                   /\ \A j \in 1..(k - 1) :
                         vote_counts[j].count < vote_counts[k].count
    IN  IF vote_counts = <<>> THEN [exc |-> "ValueError", label |-> <<>>]
        ELSE [exc |-> "none", label |-> vote_counts[best].label]

\* The round from which consensus may stop the debate: round_num >= 3.
MinRounds == 3

\* The slice bound of verdict.reasoning[:300] in a round_context line.
ContextLimit == 300

\* The most rounds a crew is constructed with.
MaxCrewRounds == 4

\* What crew.kickoff() gives for a debater's task: it raises, or an output.
\* Outputs: a faithful, a mutation and an uncertain object, an object whose
\* verdict is null, and an object whose reasoning is null.
Out ==
    [Faithful |->
        Response(<<>>, "object",
               [NoObject EXCEPT !.verdict = JStr(FAITHFUL),
                                !.confidence = JNum(<<"0", ".", "9">>),
                                !.reasoning = JStr(Txt.Matches)],
               <<>>, <<>>),
     Mutation |->
        Response(<<>>, "object",
               [NoObject EXCEPT !.verdict = JStr(MUTATION),
                                !.confidence = JNum(<<"0", ".", "8">>),
                                !.reasoning = JStr(Txt.Dates)],
               <<>>, <<>>),
     NullVerdict |->
        Response(<<>>, "object",
               [NoObject EXCEPT !.verdict = JNull,
                                !.reasoning = JStr(Txt.Unsure)],
               <<>>, <<>>),
     NullReasoning |->
        Response(<<>>, "object",
               [NoObject EXCEPT !.verdict = JStr(FAITHFUL),
                                !.reasoning = JNull],
               <<>>, <<>>),
     Uncertain |->
        Response(<<>>, "object",
               [NoObject EXCEPT !.verdict = JStr(UNCERTAIN),
                                !.confidence = JNum(<<"0", ".", "5">>),
                                !.reasoning = JStr(Txt.Unsure)],
               <<>>, <<>>)]

\* The debaters' outputs of one round: those that answer mutation are the
\* first debaters of the roster, so that a round is any of the splits 0/5,
\* 1/4, ..., 5/0. In a debate of a single round every debater may answer
\* any of the three labels, so that every order and every tie occurs. In a
\* debate that is streamed a round is one of the splits 1/4, a share of
\* 0.8, and 2/3.
DebaterOutputs(sofar) ==
    IF debate_thread = "idle"
    THEN {Out.Faithful, Out.NullVerdict, Out.NullReasoning}
            \cup (IF sofar = <<>> \/ sofar[Len(sofar)].verdict = MUTATION
                  THEN {Out.Mutation} ELSE {})
            \cup (IF crew_max_rounds = 1 THEN {Out.Mutation, Out.Uncertain}
                  ELSE {})
    ELSE IF sofar = <<>> THEN {Out.Mutation}
    ELSE IF Len(sofar) = 1 THEN {Out.Mutation, Out.Faithful}
    ELSE {Out.Faithful}

\* What the judge's crew gives.
JudgeOutputs ==
    {Response(<<>>, "object",
              [NoObject EXCEPT !.verdict = JStr(MUTATION),
                               !.confidence = JNum(<<"0", ".", "9">>),
                               !.reasoning = JStr(Txt.Dates),
                               !.mutation_type = JStr(MutationKeywords[1].type)],
              <<>>, <<>>),
     Response(<<>>, "object",
              [NoObject EXCEPT !.verdict = JStr(FAITHFUL),
                               !.confidence = JNum(<<"0", ".", "9">>),
                               !.reasoning = JStr(Txt.Matches)],
              <<>>, <<>>),
     Response(Txt.Unsure, "none", NoObject, <<>>, <<>>)}

\* The line a Verdict adds to round_context: name, label, confidence and
\* verdict.reasoning[:300].
ContextLine(name, verdict) ==
    [name |-> name, verdict |-> verdict.verdict,
     confidence |-> verdict.confidence,
     reasoning |-> IF verdict.reasoning.t = "str"
                   THEN JStr(Prefix(verdict.reasoning.s, ContextLimit))
                   ELSE JList(Prefix(verdict.reasoning.items, ContextLimit))]

\* One call of a progress callback: on_round_start(round_num),
\* on_agent_thinking(name), on_verdict(verdict) or
\* on_round_complete(round_num, round_verdicts), made in round round_num.
Callback(cb, number, name, verdict) ==
    [cb |-> cb, round |-> number, name |-> name, verdict |-> verdict]

InitCrew ==
    /\ crew_max_rounds \in 0..MaxCrewRounds
    /\ crew_pc = "for"
    /\ crew_round = 0
    /\ crew_agent = 0
    /\ round_verdicts = <<>>
    /\ all_verdicts = <<>>
    /\ crew_rounds = <<>>
    /\ current_context = <<>>
    /\ round_context = <<>>
    /\ consensus_status = NoStatus
    /\ crew_result = CrewRunning
    /\ callbacks = <<>>
    /\ debate_thread = "idle"
    /\ taken = 0
    /\ consumer = "idle"
    /\ stream = <<>>
    /\ IdleParse /\ IdleProtocol /\ IdleReorder

\* A round that starts without telling on_round_start.
RoundStartUnannounced ==
    /\ crew_pc = "for"
    /\ crew_round < crew_max_rounds
    /\ crew_round' = crew_round + 1
    /\ round_verdicts' = <<>>
    /\ round_context' = <<>>
    /\ crew_agent' = 1
    /\ crew_pc' = "agents"
    /\ UNCHANGED <<crew_max_rounds, all_verdicts, crew_rounds,
                   current_context, consensus_status, crew_result, callbacks>>
    /\ UNCHANGED <<parse_vars, protocol_vars, reorder_vars, stream_vars>>

\* for round_num in range(1, self.max_rounds + 1): the next round starts.
RoundStart ==
    /\ crew_pc = "for"
    /\ crew_round < crew_max_rounds
    /\ crew_round' = crew_round + 1
    /\ round_verdicts' = <<>>
    /\ round_context' = <<>>
    /\ crew_agent' = 1
    /\ crew_pc' = "agents"
    /\ callbacks' = Append(callbacks,
                           Callback("on_round_start", crew_round + 1, "",
                                    NoVerdict))
    /\ UNCHANGED <<crew_max_rounds, all_verdicts, crew_rounds,
                   current_context, consensus_status, crew_result>>
    /\ UNCHANGED <<parse_vars, protocol_vars, reorder_vars, stream_vars>>

\* crew.kickoff() of the debater's task raises: nothing catches it.
KickoffRaises ==
    /\ crew_pc = "agents"
    /\ crew_agent <= Len(CrewAgents)
    /\ crew_pc' = "raised"
    /\ crew_result' = CrewRaised("TimeoutError", "agent")
    /\ callbacks' = Append(callbacks,
                           Callback("on_agent_thinking", crew_round,
                                    CrewAgents[crew_agent], NoVerdict))
    /\ UNCHANGED <<crew_max_rounds, crew_round, crew_agent, round_verdicts,
                   all_verdicts, crew_rounds, current_context, round_context,
                   consensus_status>>
    /\ UNCHANGED <<parse_vars, protocol_vars, reorder_vars, stream_vars>>

\* One debater's turn: str(crew.kickoff()) -> parse_verdict_from_output ->
\* round_verdicts.append -> the round_context line. exc is the exception
\* that leaves the turn ("none" when it completes), appended tells whether
\* the Verdict was appended before.
TurnOf(name, parsed) ==
    IF parsed.exc # "none"
    THEN [exc |-> parsed.exc, appended |-> FALSE, v |-> NoVerdict,
          line |-> ContextLine(name, NoVerdict)]
    ELSE IF parsed.v.reasoning.t \notin {"str", "list"}
    THEN [exc |-> "TypeError", appended |-> TRUE, v |-> parsed.v,
          line |-> ContextLine(name, NoVerdict)]
    ELSE [exc |-> "none", appended |-> TRUE, v |-> parsed.v,
          line |-> ContextLine(name, parsed.v)]

DebaterTurn(name, output) ==
    TurnOf(name, parse_verdict_from_output(output, name))

\* One iteration of "for name, agent in self.agents".
AgentCall ==
    /\ crew_pc = "agents"
    /\ crew_agent <= Len(CrewAgents)
    /\ \E output \in DebaterOutputs(round_verdicts) :
          \E turn \in {DebaterTurn(CrewAgents[crew_agent], output)} :
              /\ round_verdicts' = IF turn.appended
                                   THEN Append(round_verdicts, turn.v)
                                   ELSE round_verdicts
              /\ round_context' = IF turn.exc = "none"
                                  THEN Append(round_context, turn.line)
                                  ELSE round_context
              /\ crew_agent' = IF turn.exc = "none" THEN crew_agent + 1
                               ELSE crew_agent
              /\ crew_pc' = IF turn.exc = "none" THEN crew_pc ELSE "raised"
              /\ crew_result' = IF turn.exc = "none" THEN crew_result
                                ELSE CrewRaised(turn.exc, "agent")
              /\ callbacks' =
                    Append(callbacks,
                           Callback("on_agent_thinking", crew_round,
                                    CrewAgents[crew_agent], NoVerdict))
                      \o (IF turn.exc = "none"
                          THEN <<Callback("on_verdict", crew_round,
                                          turn.v.agent_name, turn.v)>>
                          ELSE <<>>)
    /\ UNCHANGED <<crew_max_rounds, crew_round, all_verdicts, crew_rounds,
                   current_context, consensus_status>>
    /\ UNCHANGED <<parse_vars, protocol_vars, reorder_vars, stream_vars>>

\* The end of a round that keeps the Verdicts of the first round as
\* all_verdicts.
RoundEndKeepsFirst ==
    /\ crew_pc = "agents"
    /\ crew_agent = Len(CrewAgents) + 1
    /\ all_verdicts' = IF all_verdicts = <<>> THEN round_verdicts
                       ELSE all_verdicts
    /\ crew_rounds' =
          Append(crew_rounds,
                 [round |-> crew_round,
                  verdicts |-> [i \in 1..Len(round_verdicts) |->
                                   <<round_verdicts[i].agent_name,
                                     round_verdicts[i].verdict,
                                     round_verdicts[i].confidence,
                                     round_verdicts[i].reasoning>>]])
    /\ current_context' =
          Append(current_context, [round |-> crew_round, lines |-> round_context])
    /\ callbacks' = Append(callbacks,
                           Callback("on_round_complete", crew_round, "",
                                    NoVerdict))
    /\ crew_pc' = IF crew_round >= MinRounds /\ _check_consensus(round_verdicts)
                  THEN "judge" ELSE "for"
    /\ UNCHANGED <<crew_max_rounds, crew_round, crew_agent, round_verdicts,
                   round_context, consensus_status, crew_result>>
    /\ UNCHANGED <<parse_vars, protocol_vars, reorder_vars, stream_vars>>

\* The end of a round: all_verdicts, debate_rounds.append, current_context,
\* and the break on consensus from round 3 on.
RoundEnd ==
    /\ crew_pc = "agents"
    /\ crew_agent = Len(CrewAgents) + 1
    /\ all_verdicts' = round_verdicts
    /\ crew_rounds' =
          Append(crew_rounds,
                 [round |-> crew_round,
                  verdicts |-> [i \in 1..Len(round_verdicts) |->
                                   <<round_verdicts[i].agent_name,
                                     round_verdicts[i].verdict,
                                     round_verdicts[i].confidence,
                                     round_verdicts[i].reasoning>>]])
    /\ current_context' =
          Append(current_context, [round |-> crew_round, lines |-> round_context])
    /\ callbacks' = Append(callbacks,
                           Callback("on_round_complete", crew_round, "",
                                    NoVerdict))
    /\ crew_pc' = IF crew_round >= MinRounds /\ _check_consensus(round_verdicts)
                  THEN "judge" ELSE "for"
    /\ UNCHANGED <<crew_max_rounds, crew_round, crew_agent, round_verdicts,
                   round_context, consensus_status, crew_result>>
    /\ UNCHANGED <<parse_vars, protocol_vars, reorder_vars, stream_vars>>

\* range(1, self.max_rounds + 1) is exhausted.
RoundsExhausted ==
    /\ crew_pc = "for"
    /\ crew_round >= crew_max_rounds
    /\ crew_pc' = "judge"
    /\ UNCHANGED <<crew_max_rounds, crew_round, crew_agent, round_verdicts,
                   all_verdicts, crew_rounds, current_context, round_context,
                   consensus_status, crew_result>>
    /\ UNCHANGED callbacks
    /\ UNCHANGED <<parse_vars, protocol_vars, reorder_vars, stream_vars>>

\* consensus_status = "CONSENSUS REACHED" if reached_consensus else
\* f"NO CONSENSUS after {self.max_rounds} rounds - MAJORITY VOTE: ..."
ConsensusStatus(reached_consensus, majority_verdict) ==
    IF reached_consensus
    THEN [reached_consensus |-> TRUE, rounds |-> 0, majority_verdict |-> <<>>]
    ELSE [reached_consensus |-> FALSE, rounds |-> crew_max_rounds,
          majority_verdict |-> majority_verdict]

\* CrewDebateResult(...) from the judge's parsed output.
CrewDebateResult(fv) ==
    [initial_verdicts |-> all_verdicts, debate_rounds |-> crew_rounds,
     final_verdict |-> fv.verdict, final_confidence |-> fv.confidence,
     final_reasoning |-> fv.reasoning, mutation_type |-> fv.mutation_type,
     dissenting_opinions |-> fv.dissenting_opinions]

\* After the loop: consensus status, majority verdict, the judge's kickoff
\* (judge.exc names what it raises), parse_final_verdict, the result.
JudgeCall(judge) ==
    /\ crew_pc = "judge"
    /\ LET reached_consensus == _check_consensus(all_verdicts)
           majority_verdict  == _get_majority_verdict(all_verdicts)
           parsed            == parse_final_verdict(judge.response)
       IN  IF majority_verdict.exc # "none"
           THEN /\ crew_pc' = "raised"
                /\ crew_result' = CrewRaised(majority_verdict.exc, "majority")
                /\ UNCHANGED consensus_status
           ELSE /\ consensus_status' =
                      ConsensusStatus(reached_consensus, majority_verdict.label)
                /\ IF judge.exc # "none"
                   THEN /\ crew_pc' = "raised"
                        /\ crew_result' = CrewRaised(judge.exc, "judge")
                   ELSE IF parsed.exc # "none"
                   THEN /\ crew_pc' = "raised"
                        /\ crew_result' = CrewRaised(parsed.exc, "judge")
                   ELSE /\ crew_pc' = "done"
                        /\ crew_result' = CrewReturned(CrewDebateResult(parsed.fv))
    /\ UNCHANGED <<crew_max_rounds, crew_round, crew_agent, round_verdicts,
                   all_verdicts, crew_rounds, current_context, round_context>>
    /\ UNCHANGED callbacks
    /\ UNCHANGED <<parse_vars, protocol_vars, reorder_vars, stream_vars>>

NextCrew ==
    \/ RoundStart
    \/ KickoffRaises
    \/ AgentCall
    \/ RoundEnd
    \/ RoundsExhausted
    \/ \E out \in JudgeOutputs :
          JudgeCall([exc |-> "none", response |-> out])
    \/ JudgeCall([exc |-> "TimeoutError",
                  response |-> Response(<<>>, "none", NoObject, <<>>, <<>>)])

SpecCrew == InitCrew /\ [][NextCrew]_vars

(***************************************************************************)
(* stream_debate, iterative paradigm (api/server.py): debate_thread runs   *)
(* FactCheckCrew.run_debate, whose callbacks put events on event_queue;    *)
(* the generator gets them and yields them on the stream.                  *)
(***************************************************************************)
\* An (event_type, event_data) pair of the queue, or the
\* {'type': ..., 'data': ...} object send_event writes: data is a round
\* number, a text, an agent's name, a Verdict or the final verdict.
Event(type, number, text, name, verdict, fv) ==
    [type |-> type, round |-> number, text |-> text, name |-> name,
     verdict |-> verdict, final |-> fv]

\* What the callbacks on_round_start, on_agent_thinking, on_verdict and
\* on_round_complete put on event_queue for one call.
PutsOf(call) ==
    CASE call.cb = "on_round_start" ->
           <<Event("phase", call.round,
                   IF call.round = 1 THEN "Round 1: Initial Positions"
                   ELSE "Round {round_num}: Rebuttals",
                   "", NoVerdict, NoFinal),
             Event("debate_round", call.round, "", "", NoVerdict, NoFinal)>>
      [] call.cb = "on_agent_thinking" ->
           <<Event("agent_thinking", 0, "", call.name, NoVerdict, NoFinal)>>
      [] call.cb = "on_verdict" ->
           <<Event("agent_verdict", 0, "", call.verdict.agent_name,
                   call.verdict, NoFinal)>>
      [] call.cb = "on_round_complete" ->
           <<Event("round_complete", call.round, "", "", NoVerdict, NoFinal)>>

\* Every event put on event_queue so far, in the order of the puts: those of
\* the callbacks' calls, then ('done', None) once run_debate has returned and
\* the thread has put it.
RECURSIVE Puts(_, _)
Puts(calls, thread) ==
    IF calls # <<>> THEN PutsOf(Head(calls)) \o Puts(Tail(calls), thread)
    ELSE IF thread \in {"put_done", "finished"} /\ crew_pc = "done"
    THEN <<Event("done", 0, "", "", NoVerdict, NoFinal)>>
    ELSE <<>>

\* event_queue: the puts that no get has returned yet.
event_queue ==
    SubSeq(Puts(callbacks, debate_thread), taken + 1,
           Len(Puts(callbacks, debate_thread)))

\* What the consumer loop yields for an event it taken: send_event of the
\* same type and data, 'status' "Round n complete" for round_complete.
Yielded(event) ==
    IF event.type = "round_complete"
    THEN <<Event("status", event.round, "Round {event_data} complete", "",
                 NoVerdict, NoFinal)>>
    ELSE IF event.type \in {"debate_round", "agent_thinking",
                            "agent_verdict", "phase"}
    THEN <<event>>
    ELSE <<>>

\* The events after the loop, from result = result_holder[0], and the
\* 'done' event that ends every paradigm.
Closing(result, rounds) ==
    LET actual_rounds == IF result.debate_rounds # <<>>
                         THEN Len(result.debate_rounds) ELSE 1
    IN  <<Event("status", actual_rounds,
                IF actual_rounds < rounds
                THEN "Consensus reached after {actual_rounds} round(s)"
                ELSE "Max rounds reached - taking majority vote",
                "", NoVerdict, NoFinal),
          Event("phase", 0, "Synthesis Judge Deliberation", "", NoVerdict,
                NoFinal),
          Event("agent_thinking", 0, "", "The Synthesis Judge", NoVerdict,
                NoFinal),
          Event("final_verdict", 0, "", "", NoVerdict,
                FinalVerdict(result.final_verdict, result.final_confidence,
                             result.final_reasoning,
                             result.dissenting_opinions,
                             result.mutation_type)),
          Event("done", 0, "", "", NoVerdict, NoFinal)>>

\* debate_thread.start(): the thread is in crew.run_debate, the generator
\* at the top of its loop.
InitStream ==
    /\ crew_max_rounds \in 0..MaxCrewRounds
    /\ crew_pc = "for"
    /\ crew_round = 0
    /\ crew_agent = 0
    /\ round_verdicts = <<>>
    /\ all_verdicts = <<>>
    /\ crew_rounds = <<>>
    /\ current_context = <<>>
    /\ round_context = <<>>
    /\ consensus_status = NoStatus
    /\ crew_result = CrewRunning
    /\ callbacks = <<>>
    /\ debate_thread = "run_debate"
    /\ taken = 0
    /\ consumer = "get"
    /\ stream = <<>>
    /\ IdleParse /\ IdleProtocol /\ IdleReorder

\* run_debate has returned: result_holder[0] is bound and ('done', None)
\* is put.
PutDone ==
    /\ debate_thread = "run_debate"
    /\ crew_pc = "done"
    /\ debate_thread' = "put_done"
    /\ UNCHANGED <<taken, consumer, stream>>
    /\ UNCHANGED <<parse_vars, protocol_vars, reorder_vars, crew_vars>>

\* The thread's target returns, or the exception run_debate raised leaves
\* it: is_alive() is false from here on.
ThreadExit ==
    /\ \/ debate_thread = "put_done"
       \/ debate_thread = "run_debate" /\ crew_pc = "raised"
    /\ debate_thread' = "finished"
    /\ UNCHANGED <<taken, consumer, stream>>
    /\ UNCHANGED <<parse_vars, protocol_vars, reorder_vars, crew_vars>>

\* event_queue.get(timeout=0.5) returns the head of the queue: break on
\* 'done', else the yield of its branch.
GetEvent(queue) ==
    /\ consumer = "get"
    /\ queue # <<>>
    /\ taken' = taken + 1
    /\ stream' = stream \o Yielded(Head(queue))
    /\ consumer' = IF Head(queue).type = "done" THEN "join" ELSE "get"
    /\ UNCHANGED debate_thread
    /\ UNCHANGED <<parse_vars, protocol_vars, reorder_vars, crew_vars>>

\* event_queue.get(timeout=0.5) raises queue.Empty: the queue held nothing
\* for the time of the wait.
GetTimeout(queue) ==
    /\ consumer = "get"
    /\ queue = <<>>
    /\ consumer' = "except"
    /\ UNCHANGED <<debate_thread, taken, stream>>
    /\ UNCHANGED <<parse_vars, protocol_vars, reorder_vars, crew_vars>>

\* except: if not debate_thread.is_alive(): break
CheckAlive ==
    /\ consumer = "except"
    /\ consumer' = IF debate_thread = "finished" THEN "join" ELSE "get"
    /\ UNCHANGED <<debate_thread, taken, stream>>
    /\ UNCHANGED <<parse_vars, protocol_vars, reorder_vars, crew_vars>>

\* debate_thread.join() returns; result = result_holder[0] is None when
\* run_debate raised, and result.debate_rounds raises AttributeError out of
\* the generator; else the closing events are yielded.
JoinAndClose ==
    /\ consumer = "join"
    /\ debate_thread = "finished"
    /\ IF crew_result.exc = "none"
       THEN /\ stream' = stream \o Closing(crew_result.result, crew_max_rounds)
            /\ consumer' = "done"
       ELSE /\ stream' = stream
            /\ consumer' = "raised"
    /\ UNCHANGED <<debate_thread, taken>>
    /\ UNCHANGED <<parse_vars, protocol_vars, reorder_vars, crew_vars>>

NextStream ==
    \/ RoundStart
    \/ KickoffRaises
    \/ AgentCall
    \/ RoundEnd
    \/ RoundsExhausted
    \/ \E out \in JudgeOutputs :
          JudgeCall([exc |-> "none", response |-> out])
    \/ JudgeCall([exc |-> "TimeoutError",
                  response |-> Response(<<>>, "none", NoObject, <<>>, <<>>)])
    \/ PutDone
    \/ ThreadExit
    \/ GetEvent(event_queue)
    \/ GetTimeout(event_queue)
    \/ CheckAlive
    \/ JoinAndClose

SpecStream == InitStream /\ [][NextStream]_vars

\* The generator is resumed by the event loop: each of the consumer's steps
\* is taken if it stays enabled.
FairStream ==
    /\ SpecStream
    /\ WF_vars(GetEvent(event_queue))
    /\ WF_vars(GetTimeout(event_queue))
    /\ WF_vars(CheckAlive)
    /\ WF_vars(JoinAndClose)

(***************************************************************************)
(* Properties of the synthesizer (SpecSynth).                              *)
(***************************************************************************)
LabelsOf(vs) == {vs[i].verdict : i \in 1..Len(vs)}

\* The confidences of the Verdicts of one label, summed in list order.
LabelTotal(vs, l) ==
    LET sel == SelectSeq(vs, LAMBDA v : v.verdict = l)
    IN  PySum([i \in 1..Len(sel) |-> sel[i].confidence], DZero)

\* The three label totals, summed.
AllTotal(vs) ==
    PySum(<<LabelTotal(vs, FAITHFUL), LabelTotal(vs, MUTATION),
            LabelTotal(vs, UNCERTAIN)>>, DZero)

\* C5: the majority strategy returns a label whose summed confidence is
\* highest; the final confidence is that sum divided by the sum of all
\* confidences (the label totals added up), and 0 when that sum is 0.
C5_WeightedMajority ==
    (strategy = "majority" /\ final.exc # "pending") =>
        /\ final.exc = "none"
        /\ final.fv.verdict \in Labels
        /\ \A l \in Labels :
              DLeq(LabelTotal(initial_verdicts, l),
                   LabelTotal(initial_verdicts, final.fv.verdict))
        /\ final.fv.confidence =
              IF IsZero(AllTotal(initial_verdicts)) THEN DZero
              ELSE DDiv(LabelTotal(initial_verdicts, final.fv.verdict),
                        AllTotal(initial_verdicts))

\* A majority result with a winner, a dissenting label and a confidence
\* strictly between 0 and 1.
C5_Witness ==
    /\ strategy = "majority" /\ final.exc = "none"
    /\ final.fv.verdict = MUTATION
    /\ FAITHFUL \in LabelsOf(initial_verdicts)
    /\ DLess(DZero, final.fv.confidence)
    /\ DLess(final.fv.confidence, Lit.d10)

\* C11 as stated: with the majority strategy, three agents all answering
\* mutation at confidence 0.7 give a FinalVerdict of label mutation and
\* confidence 0.7.
C11_CommonConfidence ==
    (strategy = "majority" /\ final.exc = "none"
        /\ initial_verdicts = ThreeMutationsAt07) =>
        /\ final.fv.verdict = MUTATION
        /\ final.fv.confidence = ParseFloat(<<"0", ".", "7">>)

\* C11 amended: with the majority strategy, three agents all answering
\* mutation at confidence 0.7 give a FinalVerdict of label mutation and
\* confidence 1.0, the winning sum being the sum of all confidences.
C11_WholeShare ==
    (strategy = "majority" /\ final.exc # "pending"
        /\ initial_verdicts = ThreeMutationsAt07) =>
        /\ final.exc = "none"
        /\ final.fv.verdict = MUTATION
        /\ final.fv.confidence = Lit.d10

C11_Witness ==
    /\ strategy = "majority" /\ final.exc = "none"
    /\ initial_verdicts = ThreeMutationsAt07
    /\ final.fv.verdict = MUTATION

\* The confidences of a list of Verdicts, in list order.
ConfidencesOf(vs) == [i \in 1..Len(vs) |-> vs[i].confidence]

\* C18: under the unanimous strategy, when all Verdicts share one label the
\* confidence is the sum of all input confidences, added in list order,
\* divided by their number, and the dissent list is empty; otherwise the confidence is 0.5 and the dissent
\* list has one entry per input Verdict, in order, with its name and label.
C18_UnanimityConfidence ==
    (strategy = "unanimous" /\ final.exc = "none") =>
        IF Cardinality(LabelsOf(initial_verdicts)) = 1
        THEN /\ final.fv.confidence =
                    DDiv(PySum(ConfidencesOf(initial_verdicts), DZero),
                         IntToDbl(Len(initial_verdicts)))
             /\ final.fv.dissenting_opinions = <<>>
        ELSE /\ final.fv.confidence = Lit.d05
             /\ Len(final.fv.dissenting_opinions) = Len(initial_verdicts)
             /\ \A i \in 1..Len(initial_verdicts) :
                    /\ final.fv.dissenting_opinions[i].agent_name =
                          initial_verdicts[i].agent_name
                    /\ final.fv.dissenting_opinions[i].verdict =
                          initial_verdicts[i].verdict

\* Both cases: agreement among Verdicts of different confidences, and a
\* split of three Verdicts.
C18_Witness ==
    /\ strategy = "unanimous" /\ final.exc = "none"
    /\ final_reordered.exc = "none"
    /\ \/ /\ Cardinality(LabelsOf(initial_verdicts)) = 1
          /\ Len(initial_verdicts) >= 2
          /\ initial_verdicts[1].confidence # initial_verdicts[2].confidence
          /\ final.fv.dissenting_opinions = <<>>
       \/ /\ Cardinality(LabelsOf(initial_verdicts)) = 3
          /\ Len(final.fv.dissenting_opinions) = 3

\* The text the classification reads: the reasonings, then the evidence
\* items, joined by spaces, in lower case.
CombinedText ==
    lower(JoinSpace([i \in 1..Len(initial_verdicts) |->
                        initial_verdicts[i].reasoning.s]
                    \o AllEvidence(initial_verdicts)))

\* The combined text holds a keyword of the given kind.
HasVocabulary(type) ==
    \E k \in 1..Len(MutationKeywords) :
        /\ MutationKeywords[k].type = type
        /\ \E w \in MutationKeywords[k].words : Contains(CombinedText, w)

KindTemporal == <<"t", "e", "m", "p", "o", "r", "a", "l">>

KindNumerical == <<"n", "u", "m", "e", "r", "i", "c", "a", "l">>

KindContextual == <<"c", "o", "n", "t", "e", "x", "t", "u", "a", "l">>

KindFraming == <<"f", "r", "a", "m", "i", "n", "g">>

\* C17: the mutation type of a mutation FinalVerdict is temporal if the
\* combined text has a temporal keyword, else numerical if it has a
\* numerical one, else contextual, else framing, else unspecified.
C17_TypePriority ==
    (final.exc = "none" /\ final.fv.verdict = MUTATION) =>
        final.fv.mutation_type =
            JStr(IF HasVocabulary(KindTemporal) THEN KindTemporal
                 ELSE IF HasVocabulary(KindNumerical) THEN KindNumerical
                 ELSE IF HasVocabulary(KindContextual) THEN KindContextual
                 ELSE IF HasVocabulary(KindFraming) THEN KindFraming
                 ELSE TypeUnspecified)

\* A mutation FinalVerdict over a text with temporal and numerical words.
C17_Witness ==
    /\ final.exc = "none" /\ final.fv.verdict = MUTATION
    /\ HasVocabulary(KindTemporal) /\ HasVocabulary(KindNumerical)
    /\ final.fv.mutation_type = JStr(KindTemporal)

\* C6: the majority strategy gives the same label and confidence for a
\* Verdict list and for any reordering of it.
C6_PermutationInvariant ==
    (strategy = "majority" /\ final.exc = "none"
        /\ final_reordered.exc = "none") =>
        /\ final.fv.verdict = final_reordered.fv.verdict
        /\ final.fv.confidence = final_reordered.fv.confidence

\* C7: the unanimous strategy returns the shared label when all labels are
\* identical, and uncertain whenever two or more distinct labels occur.
C7_Unanimity ==
    (strategy = "unanimous" /\ final.exc # "pending") =>
        /\ final.exc = "none"
        /\ Cardinality(LabelsOf(initial_verdicts)) = 1 =>
              final.fv.verdict \in LabelsOf(initial_verdicts)
        /\ Cardinality(LabelsOf(initial_verdicts)) >= 2 =>
              final.fv.verdict = UNCERTAIN

\* A split between faithful and mutation, answered uncertain.
C7_Witness ==
    /\ strategy = "unanimous" /\ final.exc = "none"
    /\ LabelsOf(initial_verdicts) = {FAITHFUL, MUTATION}
    /\ final.fv.verdict = UNCERTAIN

(***************************************************************************)
(* Properties of DebateProtocol (SpecProtocol).                            *)
(***************************************************************************)
FailedAgents == {i \in 1..Len(agents) : analyzed[i].exc \notin {"none", "pending"}}

VerdictsOf(name) == SelectSeq(initial_verdicts, LAMBDA v : v.agent_name = name)

\* C1: whichever agents raise in round 1, run_debate does not raise and the
\* round-1 result holds exactly one Verdict per roster agent: the agent's own
\* Verdict, or (its name, uncertain, 0.0) when its call raised.
C1_OneVerdictPerAgent ==
    /\ pc # "raised"
    /\ pc \in {"deliberate", "round", "returned", "synthesized"} =>
          /\ Len(initial_verdicts) = Len(agents)
          /\ \A i \in 1..Len(agents) :
                /\ Len(VerdictsOf(agents[i])) = 1
                /\ i \notin FailedAgents =>
                      VerdictsOf(agents[i])[1] = analyzed[i].v
                /\ i \in FailedAgents =>
                      /\ VerdictsOf(agents[i])[1].verdict = UNCERTAIN
                      /\ VerdictsOf(agents[i])[1].confidence = Lit.d00

\* A parallel round 1 of three agents returned, one agent failed in the
\* generator, one in the parser, one succeeded, collected out of roster
\* order.
C1_Witness ==
    /\ pc = "returned" /\ parallel /\ Len(agents) = 3
    /\ \E i, j, k \in 1..3 :
          /\ analyzed[i].exc = "TimeoutError"
          /\ analyzed[j].exc = "AttributeError"
          /\ analyzed[k].exc = "none"
    /\ initial_verdicts[1].agent_name # agents[1]

\* What the sequential loop collects from the same calls: agent by agent in
\* roster order, the call's Verdict or the placeholder of the agent whose
\* call raised.
SequentialCollection ==
    [i \in 1..Len(agents) |->
        IF analyzed[i].exc = "none" THEN analyzed[i].v
        ELSE AgentVerdict(agents[i], UNCERTAIN, Lit.d00,
                          JStr(ErrorPrefix \o ExceptionText(analyzed[i].exc)),
                          JList(<<>>))]

\* C21: the round-1 collection holds the Verdicts the sequential loop would
\* hold for the same calls, each once and under its agent's name; the
\* sequential branch holds them in roster order, the thread pool in any
\* order.
C21_ParallelEqualsSequential ==
    pc \in {"deliberate", "round", "returned", "synthesized"} =>
        /\ Len(initial_verdicts) = Len(agents)
        /\ {initial_verdicts[j] : j \in 1..Len(initial_verdicts)} =
              {SequentialCollection[i] : i \in 1..Len(agents)}
        /\ \A i \in 1..Len(agents) :
              Len(VerdictsOf(agents[i])) = 1
        /\ ~(parallel /\ Len(agents) > 1) =>
              initial_verdicts = SequentialCollection

\* A thread pool whose futures were yielded in an order that is not the
\* roster's, with the placeholder of a failed call among the Verdicts.
C21_Witness ==
    /\ pc = "deliberate" /\ parallel /\ Len(agents) = 3
    /\ initial_verdicts # SequentialCollection
    /\ analyzed[3].exc = "TimeoutError"
    /\ initial_verdicts[1].agent_name = agents[3]
    /\ initial_verdicts[1].verdict = UNCERTAIN

\* C23: the prompt of every respond_to call of deliberation round k carries
\* the round-1 Verdict of every other agent and the response every other
\* agent gave in the deliberation rounds before k, and no response of round
\* k itself.
C23_PriorRoundsVisible ==
    \A i \in 1..Len(prompts) :
        LET k == prompts[i].round
            seen == prompts[i].prompt
        IN  /\ \A j \in 1..Len(initial_verdicts) :
                  initial_verdicts[j].agent_name # seen.agent =>
                      \E m \in 1..Len(seen.verdicts) :
                          seen.verdicts[m] = initial_verdicts[j]
            /\ \A earlier \in 1..(k - 1) :
                  \A j \in 1..Len(debate_rounds[earlier].responses) :
                      debate_rounds[earlier].responses[j].agent # seen.agent =>
                          \E m \in 1..Len(seen.responses) :
                              seen.responses[m] =
                                  debate_rounds[earlier].responses[j]
            /\ \A m \in 1..Len(seen.responses) :
                  \E earlier \in 1..(k - 1) :
                      \E j \in 1..Len(debate_rounds[earlier].responses) :
                          seen.responses[m] =
                              debate_rounds[earlier].responses[j]

\* C24: with a positive max_rounds, the rounds of agent calls that
\* DebateProtocol has entered, the independent round 1 and the deliberation
\* rounds, are at most max_rounds, and deliberation rounds are entered in
\* deliberation mode only.
C24_RoundsWithinMaximum ==
    max_rounds >= 1 =>
        /\ (IF pc = "run_debate" THEN 0 ELSE 1) + round_num <= max_rounds
        /\ round_num > 0 => mode = "deliberation"

\* C15: under an invalid configuration (a strategy name that is not one of
\* the three, or a max_rounds that is not positive) no agent has been
\* called, no round has run and no synthesis has been made.
C15_InvalidConfigurationRejected ==
    (max_rounds <= 0 \/ strategy \notin {"none", "majority", "unanimous", "llm"})
        => /\ \A i \in 1..Len(analyzed) : analyzed[i].exc = "pending"
           /\ responses = <<>> /\ debate_rounds = <<>>
           /\ final.exc = "pending"

\* C16: a FinalVerdict that synthesize returns, under any strategy, has a
\* null mutation_type when its label is not mutation and one of temporal,
\* numerical, contextual, framing, unspecified when it is.
C16_MutationTypeMatchesLabel ==
    final.exc = "none" =>
        IF final.fv.verdict = MUTATION
        THEN /\ final.fv.mutation_type.t = "str"
             /\ final.fv.mutation_type.s \in
                    {MutationKeywords[k].type : k \in 1..Len(MutationKeywords)}
                        \cup {TypeUnspecified}
        ELSE final.fv.mutation_type = JNull

\* Every analyze call of the first round has completed and its Verdict has
\* been collected.
InitialRoundComplete ==
    /\ \A i \in 1..Len(agents) : analyzed[i].exc # "pending"
    /\ parallel /\ Len(agents) > 1 =>
          \A i \in 1..Len(agents) : futures[i].state = "yielded"
    /\ Len(initial_verdicts) = Len(agents)

C26_RebuttalChangesNoVerdict ==
    /\ pc \in {"deliberate", "round", "returned", "synthesized"} =>
          /\ initial_verdicts = verdicts
          /\ \A i \in 1..Len(agents) :
                \E j \in 1..Len(initial_verdicts) :
                    initial_verdicts[j] = Collected(agents[i], analyzed[i]).v
    /\ \A p \in 1..Len(prompts) :
          LET prompt == prompts[p].prompt
          IN  /\ \A j \in 1..Len(prompt.verdicts) :
                    prompt.verdicts[j].agent_name # prompt.agent
              /\ Len(prompt.verdicts) = Len(agents) - 1
              /\ \A i \in 1..Len(initial_verdicts) :
                    initial_verdicts[i].agent_name # prompt.agent =>
                        \E j \in 1..Len(prompt.verdicts) :
                            prompt.verdicts[j] = initial_verdicts[i]
    /\ (pc = "synthesized" /\ strategy \in {"majority", "unanimous"}) =>
          final = synthesize(strategy, verdicts, NoJudge)

\* A majority or unanimous synthesis after two deliberation rounds of at
\* least two agents, in one of which a respond_to call raised.
C26_Witness ==
    /\ pc = "synthesized" /\ strategy \in {"majority", "unanimous"}
    /\ final.exc = "none"
    /\ Len(agents) >= 2 /\ Len(debate_rounds) = 2
    /\ Len(prompts) = 2 * Len(agents)
    /\ \E k \in 1..2 :
          debate_rounds[k].responses[1].response # Txt.Matches

\* C8: when every agent fails in round 1, run_debate followed by synthesize
\* returns uncertain with confidence 0.0 without raising, under every
\* strategy.
C8_AllFailedIsUncertain ==
    (pc = "synthesized" /\ FailedAgents = 1..Len(agents)) =>
        /\ final.exc = "none"
        /\ final.fv.verdict = UNCERTAIN
        /\ final.fv.confidence = Lit.d00

(***************************************************************************)
(* Properties of FactCheckCrew.run_debate (SpecCrew).                      *)
(***************************************************************************)
\* The labels of the k-th executed round, and how many of them are l.
RoundLabels(k) ==
    [i \in 1..Len(crew_rounds[k].verdicts) |-> crew_rounds[k].verdicts[i][2]]

LabelCount(k, l) == Cardinality({i \in 1..Len(RoundLabels(k)) : RoundLabels(k)[i] = l})

\* Some label holds a share >= 0.8 (4 of 5) of round k's Verdicts.
ConsensusIn(k) ==
    \E i \in 1..Len(RoundLabels(k)) :
        5 * LabelCount(k, RoundLabels(k)[i]) >= 4 * Len(RoundLabels(k))

\* The label that holds more than half of round k's Verdicts, if any.
MajorityLabels(k) ==
    {RoundLabels(k)[i] : i \in {i \in 1..Len(RoundLabels(k)) :
        2 * LabelCount(k, RoundLabels(k)[i]) > Len(RoundLabels(k))}}

\* C2: a debater's call that raises, in any round, is replaced by an
\* uncertain/0.0 Verdict and never aborts run_debate.
C2_AgentFailureNeverAborts ==
    ~(crew_pc = "raised" /\ crew_result.at = "agent")

\* C3: run_debate executes exactly r rounds, r the least round from 3 to
\* max_rounds in which a label holds a share >= 0.8, max_rounds if there is
\* none: a consensus round from round 3 on is the last round, consensus in
\* rounds 1 and 2 stops nothing, and the loop is left only after such a
\* round or after max_rounds rounds.
C3_RoundsExecuted ==
    /\ Len(crew_rounds) <= crew_max_rounds
    /\ \A k \in 1..Len(crew_rounds) :
          (k >= MinRounds /\ ConsensusIn(k)) =>
              k = Len(crew_rounds) /\ crew_pc \notin {"for", "agents"}
    /\ crew_pc \in {"judge", "done"} =>
          \/ Len(crew_rounds) = crew_max_rounds
          \/ Len(crew_rounds) >= MinRounds /\ ConsensusIn(Len(crew_rounds))

\* A debate of at most four rounds that returned after three: round 1 was
\* unanimous, round 3 split 4 to 1.
C3_Witness ==
    /\ crew_pc = "done" /\ crew_max_rounds > MinRounds
    /\ Len(crew_rounds) = MinRounds
    /\ LabelCount(1, FAITHFUL) = 5
    /\ LabelCount(3, FAITHFUL) = 4 /\ LabelCount(3, MUTATION) = 1

\* The number of Verdicts of label l in all_verdicts, and the position of
\* the first of them.
CountOf(l) ==
    Cardinality({i \in 1..Len(all_verdicts) : all_verdicts[i].verdict = l})

FirstSeen(l) ==
    CHOOSE i \in 1..Len(all_verdicts) :
        /\ all_verdicts[i].verdict = l
        /\ \A j \in 1..(i - 1) : all_verdicts[j].verdict # l

\* C19: the majority verdict over the last round's Verdicts is a label of
\* the highest count, and of the labels of that count the one seen first;
\* it is the label the status line names.
C19_StableArgmax ==
    (crew_pc \in {"judge", "done"} /\ all_verdicts # <<>>) =>
        LET majority == _get_majority_verdict(all_verdicts)
        IN  /\ majority.exc = "none"
            /\ CountOf(majority.label) > 0
            /\ \A l \in Labels :
                  /\ CountOf(l) <= CountOf(majority.label)
                  /\ (l # majority.label
                        /\ CountOf(l) = CountOf(majority.label)) =>
                        FirstSeen(majority.label) < FirstSeen(l)
            /\ (crew_pc = "done" /\ ~consensus_status.reached_consensus) =>
                  consensus_status.majority_verdict = majority.label

\* A tie for the highest count that the label seen first wins, after
\* another label opened the round.
C19_Witness ==
    /\ crew_pc = "done" /\ ~consensus_status.reached_consensus
    /\ \E l \in Labels :
          /\ l # consensus_status.majority_verdict
          /\ CountOf(l) = CountOf(consensus_status.majority_verdict)
          /\ FirstSeen(consensus_status.majority_verdict) < FirstSeen(l)
    /\ all_verdicts[1].verdict # consensus_status.majority_verdict

\* The counterpart of C20 in FactCheckCrew.run_debate: while round k's
\* debaters are called the k - 1 earlier rounds are recorded in full, and
\* the judge is called with the five Verdicts of the last round.
CrewRoundsInOrder ==
    /\ crew_pc = "agents" =>
          /\ Len(crew_rounds) = crew_round - 1
          /\ Len(round_verdicts) <= crew_agent
    /\ \A k \in 1..Len(crew_rounds) :
          /\ crew_rounds[k].round = k
          /\ Len(crew_rounds[k].verdicts) = Len(CrewAgents)
    /\ (crew_pc \in {"judge", "done"} /\ crew_rounds # <<>>) =>
          /\ Len(all_verdicts) = Len(CrewAgents)
          /\ Len(crew_rounds) = crew_round

\* The positions of the log that hold a call of cb made in round k.
CallsOf(cb, k) ==
    {i \in 1..Len(callbacks) : callbacks[i].cb = cb /\ callbacks[i].round = k}

\* C22: the progress callbacks are called in protocol order. The first call
\* is on_round_start(1); on_round_start(k + 1) comes right after
\* on_round_complete(k); every on_agent_thinking comes right after
\* on_round_start, or after the previous agent's on_verdict, of its round;
\* every on_verdict comes right after the on_agent_thinking of the same
\* agent; on_round_complete(k) comes right after the on_verdict of the last
\* agent of round k, when all five have been called in roster order.
C22_CallbackOrder ==
    \A i \in 1..Len(callbacks) :
        LET e == callbacks[i]
            before == callbacks[i - 1]
        IN  CASE e.cb = "on_round_start" ->
                    IF i = 1 THEN e.round = 1
                    ELSE /\ before.cb = "on_round_complete"
                         /\ e.round = before.round + 1
              [] e.cb = "on_agent_thinking" ->
                    /\ i > 1 /\ before.round = e.round
                    /\ \/ before.cb = "on_round_start" /\ e.name = CrewAgents[1]
                       \/ /\ before.cb = "on_verdict"
                          /\ \E a \in 1..(Len(CrewAgents) - 1) :
                                /\ before.name = CrewAgents[a]
                                /\ e.name = CrewAgents[a + 1]
              [] e.cb = "on_verdict" ->
                    /\ i > 1 /\ before.round = e.round
                    /\ before.cb = "on_agent_thinking"
                    /\ before.name = e.name
                    /\ e.verdict.agent_name = e.name
              [] e.cb = "on_round_complete" ->
                    /\ i > 1 /\ before.round = e.round
                    /\ before.cb = "on_verdict"
                    /\ before.name = CrewAgents[Len(CrewAgents)]
                    /\ Cardinality(CallsOf("on_verdict", e.round)) =
                          Len(CrewAgents)
              [] OTHER -> FALSE

\* Two rounds reported in full and a third under way.
C22_Witness ==
    /\ CallsOf("on_round_complete", 2) # {}
    /\ CallsOf("on_round_start", 3) # {}
    /\ CallsOf("on_verdict", 3) # {}

\* The counterpart of C23 in FactCheckCrew.run_debate: while the debaters
\* of round k are called, current_context, which the task description of
\* rounds after the first quotes, holds the lines of rounds 1..k - 1, one
\* per debater, and none of round k.
CrewContextOfPriorRounds ==
    crew_pc = "agents" =>
        /\ Len(current_context) = crew_round - 1
        /\ \A k \in 1..Len(current_context) :
              /\ current_context[k].round = k
              /\ Len(current_context[k].lines) = Len(CrewAgents)
              /\ \A a \in 1..Len(CrewAgents) :
                    /\ current_context[k].lines[a].name = CrewAgents[a]
                    /\ current_context[k].lines[a].verdict =
                          crew_rounds[k].verdicts[a][2]

\* The Verdict on_verdict was called with for debater a of round k.
VerdictOf(k, a) ==
    callbacks[CHOOSE i \in CallsOf("on_verdict", k) :
                 callbacks[i].name = CrewAgents[a]].verdict

\* C25: when run_debate returns after r >= 1 rounds, initial_verdicts are
\* the Verdicts of round r, one per debater in roster order; debate_rounds
\* has r entries numbered 1..r, and each entry holds what its round's
\* debaters answered when the round was run.
C25_LastRoundIsResult ==
    (crew_pc = "done" /\ crew_round >= 1) =>
        LET result == crew_result.result
            r      == crew_round
        IN  /\ Len(result.initial_verdicts) = Len(CrewAgents)
            /\ \A a \in 1..Len(CrewAgents) :
                  /\ result.initial_verdicts[a].agent_name = CrewAgents[a]
                  /\ result.initial_verdicts[a] = VerdictOf(r, a)
            /\ Len(result.debate_rounds) = r
            /\ \A k \in 1..r :
                  /\ result.debate_rounds[k].round = k
                  /\ Len(result.debate_rounds[k].verdicts) = Len(CrewAgents)
                  /\ \A a \in 1..Len(CrewAgents) :
                        result.debate_rounds[k].verdicts[a] =
                            <<CrewAgents[a], VerdictOf(k, a).verdict,
                              VerdictOf(k, a).confidence,
                              VerdictOf(k, a).reasoning>>

\* A result after three rounds whose last round differs from the first two.
C25_Witness ==
    /\ crew_pc = "done" /\ crew_round = 3
    /\ RoundLabels(1) # RoundLabels(3)
    /\ RoundLabels(2) # RoundLabels(3)
    /\ crew_result.result.initial_verdicts[1].verdict = RoundLabels(3)[1]

\* C27: the status in the judge's task is "CONSENSUS REACHED" exactly when
\* a label holds a share >= 0.8 of the last executed round's Verdicts.
\* Otherwise it is "NO CONSENSUS after max_rounds rounds - MAJORITY VOTE:"
\* with a label no other label outnumbers in the last round, the label of
\* more than half of the Verdicts if there is one; that form occurs only
\* when max_rounds rounds were executed.
C27_StatusTellsTheExit ==
    consensus_status # NoStatus =>
        LET r == Len(crew_rounds)
        IN  /\ r >= 1
            /\ consensus_status.reached_consensus <=> ConsensusIn(r)
            /\ ~consensus_status.reached_consensus =>
                  /\ r = crew_max_rounds
                  /\ consensus_status.rounds = r
                  /\ \A l \in Labels :
                        LabelCount(r, l) <=
                            LabelCount(r, consensus_status.majority_verdict)
                  /\ MajorityLabels(r) # {} =>
                        consensus_status.majority_verdict \in MajorityLabels(r)

\* Three rounds, the last split 3 to 2: the status names the label of the
\* three votes.
C27_Witness ==
    /\ consensus_status # NoStatus /\ ~consensus_status.reached_consensus
    /\ Len(crew_rounds) = MinRounds /\ crew_max_rounds = MinRounds
    /\ LabelCount(MinRounds, MUTATION) = 3
    /\ LabelCount(MinRounds, FAITHFUL) = 2
    /\ consensus_status.majority_verdict = MUTATION

\* A debate that stopped before max_rounds with the consensus status.
C27_EarlyExit ==
    /\ consensus_status # NoStatus /\ consensus_status.reached_consensus
    /\ Len(crew_rounds) < crew_max_rounds

\* C4: when max_rounds rounds are executed and the last has no consensus,
\* the returned final verdict is the majority label of the last round.
C4_MajorityFallback ==
    (crew_pc = "done" /\ Len(crew_rounds) = crew_max_rounds
        /\ ~ConsensusIn(Len(crew_rounds))
        /\ MajorityLabels(Len(crew_rounds)) # {}) =>
        crew_result.result.final_verdict \in MajorityLabels(Len(crew_rounds))

(***************************************************************************)
(* Properties of the iterative stream (SpecStream).                        *)
(***************************************************************************)
\* What the consumer loop yields for a sequence of events, in order.
RECURSIVE YieldedAll(_)
YieldedAll(events) ==
    IF events = <<>> THEN <<>>
    ELSE Yielded(Head(events)) \o YieldedAll(Tail(events))

\* The generator has yielded its last event, 'done'.
StreamClosed == consumer = "done"

\* C28: every progress event the thread has put on event_queue is on the
\* stream once, in the order of the puts, before the final_verdict event:
\* a closed stream is what the loop yields for all the puts, followed by
\* the closing events.
C28_EveryEventStreamed ==
    StreamClosed =>
        stream = YieldedAll(Puts(callbacks, debate_thread))
                    \o Closing(crew_result.result, crew_max_rounds)

\* What holds of the stream under every interleaving: it is what the loop
\* yields for the events the gets have returned, in their order.
StreamOfEventsTaken ==
    consumer \in {"get", "except", "join", "raised"} =>
        stream = YieldedAll(SubSeq(Puts(callbacks, debate_thread), 1, taken))

\* C29: when the consumer loop is left and the generator ends, whether
\* run_debate returned or raised, the stream ends with a final_verdict
\* event followed by the done event.
C29_ClosesWithFinalVerdict ==
    consumer \in {"done", "raised"} =>
        /\ Len(stream) >= 2
        /\ stream[Len(stream) - 1].type = "final_verdict"
        /\ stream[Len(stream)].type = "done"

\* What holds of the loop (under FairStream): once the thread has finished
\* the loop is left and the generator ends.
ConsumerTerminates ==
    (debate_thread = "finished") ~> (consumer \in {"done", "raised"})

\* The status event yielded after the loop.
ClosingStatus == stream[Len(stream) - 4]

\* C30: the status after the loop tells how the debate stopped. It is
\* "Consensus reached after r round(s)" exactly when a label holds a share
\* >= 0.8 of the last executed round, r, and "Max rounds reached - taking
\* majority vote" exactly when max_rounds rounds were executed and the last
\* has no such label.
C30_StatusTellsTheExit ==
    StreamClosed =>
        LET r == Len(crew_rounds)
        IN  /\ ClosingStatus.type = "status"
            /\ (ClosingStatus.text =
                    "Consensus reached after {actual_rounds} round(s)")
                  <=> (ConsensusIn(r) /\ ClosingStatus.round = r)
            /\ (ClosingStatus.text =
                    "Max rounds reached - taking majority vote")
                  <=> (r = crew_max_rounds /\ ~ConsensusIn(r))

\* What holds of the status: the consensus text is yielded exactly when the
\* debate stopped before max_rounds, which it does on consensus only.
StatusTellsEarlyExit ==
    StreamClosed =>
        LET r == Len(crew_rounds)
        IN  /\ (ClosingStatus.text =
                    "Consensus reached after {actual_rounds} round(s)")
                  <=> r < crew_max_rounds
            /\ r < crew_max_rounds => ConsensusIn(r) /\ ClosingStatus.round = r
            /\ (ClosingStatus.text =
                    "Max rounds reached - taking majority vote")
                  <=> r = crew_max_rounds

(***************************************************************************)
(* Properties of the parsers (SpecParse).                                  *)
(***************************************************************************)
ParsedVerdicts ==
    {res.v : res \in {res \in {parsed_agent, parsed_crew} : res.exc = "none"}}

\* The response holds no JSON object that decodes.
NoDecodableObject ==
    \/ re_search(Raw(response)) = <<>>
    \/ ~json_loads(response, re_search(Raw(response))).ok

\* word occurs in the text, letter case ignored.
Mentions(word) ==
    \E i \in 1..Len(Raw(response)) :
        /\ i + Len(word) - 1 <= Len(Raw(response))
        /\ \A j \in 1..Len(word) :
              LowerChar(Raw(response)[i + j - 1]) = word[j]

KeywordLabel ==
    IF Mentions(FAITHFUL) THEN FAITHFUL
    ELSE IF Mentions(MUTATION) THEN MUTATION
    ELSE UNCERTAIN

\* C12: a response without a decodable JSON object gives, in both parsers,
\* the fallback Verdict: confidence 0.5, empty evidence, label faithful if
\* the text mentions "faithful", else mutation if it mentions "mutation",
\* else uncertain.
C12_KeywordFallback ==
    NoDecodableObject =>
        \A res \in {parsed_agent, parsed_crew} :
            res.exc # "pending" =>
                /\ res.exc = "none"
                /\ res.v.verdict = KeywordLabel
                /\ res.v.confidence = Lit.d05
                /\ res.v.evidence = JList(<<>>)

\* "I believe this is mostly faithful but missing dates" parsed by both.
C12_Witness ==
    /\ response = Response(Txt.MostlyFaithful, "none", NoObject, <<>>, <<>>)
    /\ parsed_agent.exc = "none" /\ parsed_crew.exc = "none"
    /\ parsed_agent.v.verdict = FAITHFUL /\ parsed_crew.v.verdict = FAITHFUL

\* C13: for the same response text, BaseAgent._parse_verdict,
\* parse_verdict_from_output and SingleAgentBaseline.analyze all return, and
\* return the same label and the same confidence.
C13_UniformParse ==
    \A a, b \in {parsed_agent, parsed_crew, parsed_single} :
        (a.exc # "pending" /\ b.exc # "pending") =>
            /\ a.exc = "none" /\ b.exc = "none"
            /\ a.v.verdict = b.v.verdict
            /\ a.v.confidence = b.v.confidence

\* C14: whatever the response text, turning it into a Verdict
\* (_parse_verdict, parse_verdict_from_output) or into a FinalVerdict
\* (parse_final_verdict, _llm_synthesis) returns and does not raise.
C14_NeverRaises ==
    /\ \A res \in {parsed_agent, parsed_crew} : res.exc \in {"pending", "none"}
    /\ \A res \in {parsed_final, parsed_synthesis} :
          res.exc \in {"pending", "none"}

\* C9: every Verdict a parser produces has a label in {faithful, mutation,
\* uncertain}; a value outside the three is coerced to uncertain.
C9_LabelInEnumeration == \A v \in ParsedVerdicts : v.verdict \in Labels

\* C10: every Verdict's confidence lies in [0.0, 1.0].
C10_ConfidenceInRange ==
    \A v \in ParsedVerdicts : DLeq(DZero, v.confidence) /\ DLeq(v.confidence, Lit.d10)

=============================================================================
